---------------------------- MODULE Spec2Model ----------------------------
(***************************************************************************)
(* A model of the .cryml validation pipeline: the DiagramValidator         *)
(* orchestrator and the ERD / sequence / flow validators it is built on.   *)
(*                                                                         *)
(* A parsed document is a record.  Model names and field names are         *)
(* integers: Object.entries order is the order of the sequence that holds  *)
(* them.  An error is a record [code, what, at]: `code' is the ErrorCode,  *)
(* `what' names the key the path ends in, `at' the model / field (or the   *)
(* values) the path and message name.                                      *)
(***************************************************************************)
EXTENDS Integers, Sequences, FiniteSets, TLC

\* Bounds of the model.


MaxModels == 2      \* models of a document given to validate
MaxGraph == 3       \* models of a document given to validateERDLayout
MaxFks == 4         \* foreign-key fields of a document given to validateERDLayout
MaxMessages == 3    \* messages of a document given to validateSequenceLayout
MaxNodes == 3       \* nodes of a document given to validateFlowLayout
MaxEdges == 2       \* edges of a document given to validateFlowLayout
MaxLinked == 2      \* models of a document given to the ERD parsers
MaxFlowNodes == 2   \* nodes of a document given to validateFlowStructure
MaxWalkNodes == 2   \* models, nodes of a document whose graph hasCycle, traverse walk
MaxWalkEdges == 2   \* foreign keys, edges of such a document

MaxSaves == 2       \* Save as YAML clicks and commands of a run of the webview

MaxBlocks == 2      \* blocks of a document given to validateSequenceReferences
MaxOutgoing == 2    \* edges of a document given to validateFlowBestPractices

\* ---------------------------------------------------------------------
\* Values of the parsed YAML.  Every value is a record with a `kind', the
\* JavaScript type the YAML library gives it.
\* ---------------------------------------------------------------------

Undefined == [kind |-> "undefined"]        \* a key the document does not hold
NullValue == [kind |-> "null"]             \* a key written with an empty value
Str(s) == [kind |-> "string", value |-> s]
Obj(entries) == [kind |-> "object", entries |-> entries]
Arr(entries) == [kind |-> "object", array |-> TRUE, entries |-> entries]
Bool(b) == [kind |-> "boolean", value |-> b]

\* obj[key]: undefined for a key the object does not hold
Get(obj, key) == IF key \in DOMAIN obj THEN obj[key] ELSE Undefined

ForeignKey(t, c) == [kind |-> "object", table |-> t, column |-> c]

\* JavaScript truthiness: undefined, null and "" are falsy; objects and
\* non-empty strings are truthy.
Truthy(v) ==
  \/ v.kind \in {"object", "function"}
  \/ (v.kind = "string" /\ v.value # "")
  \/ (v.kind = "boolean" /\ v.value)

\* typeof v === 'object' (true of null as well)
TypeofObject(v) == v.kind \in {"object", "null"}

\* Array.isArray(v)
IsArray(v) == v.kind = "object" /\ "array" \in DOMAIN v

\* typeof v === 'boolean', typeof v === 'string'
TypeofBoolean(v) == v.kind = "boolean"
TypeofString(v) == v.kind = "string"

\* v || false
OrFalse(v) == IF Truthy(v) THEN v ELSE Bool(FALSE)

Ghost == "Ghost"               \* a table name that names no model
IdField == "id"                \* the field every model with fields declares
RefField == "ref"              \* the optional foreign-key field of the validate documents
MissingColumn == "nope"        \* a column name that names no field

ModelName(i) == "M" \o ToString(i)
FieldName(i) == "fk" \o ToString(i)

\* Concatenation of a sequence of sequences, in order.
RECURSIVE Flatten(_)
Flatten(ss) == IF ss = <<>> THEN <<>> ELSE Head(ss) \o Flatten(Tail(ss))

SeqToSet(s) == {s[i] : i \in 1..Len(s)}

\* ---------------------------------------------------------------------
\* validators/types.ts
\* ---------------------------------------------------------------------

createError(code, what, at) ==
  [level |-> "error", code |-> code, what |-> what, at |-> at]

createWarning(code, what, at) ==
  [level |-> "warning", code |-> code, what |-> what, at |-> at]

\* aggregateResults with a document that has warnings counted as invalid
aggregateResultsStrict(errors, warnings, diagramType) ==
  [isValid |-> (Len(errors) = 0 /\ Len(warnings) = 0), errors |-> errors,
   warnings |-> warnings, diagramType |-> diagramType]

aggregateResults(errors, warnings, diagramType) ==
  [isValid |-> (Len(errors) = 0), errors |-> errors, warnings |-> warnings,
   diagramType |-> diagramType]

\* ---------------------------------------------------------------------
\* Helpers over an ERD document
\* ---------------------------------------------------------------------

\* diagram.models is an object: the guard every ERD validator opens with
HasModels(diagram) == Truthy(diagram.models)

\* Object.entries(diagram.models)
Models(diagram) == diagram.models.entries

\* Object.keys(diagram.models)
ModelNames(diagram) == [i \in 1..Len(Models(diagram)) |-> Models(diagram)[i].name]

\* modelObj.fields is an object
HasFields(model) == Truthy(model.fields)

\* Object.entries(modelObj.fields)
Fields(model) == model.fields.entries

\* diagram.models[name], Undefined when no model has that name
ModelByName(diagram, name) ==
  LET ms == Models(diagram) IN
  IF \E i \in 1..Len(ms) : ms[i].name = name
  THEN ms[CHOOSE i \in 1..Len(ms) : ms[i].name = name]
  ELSE Undefined

\* ---------------------------------------------------------------------
\* validators/structureValidator.ts
\* ---------------------------------------------------------------------

\* The checks of one field.  Reading a key of a null foreign_key raises a
\* TypeError: typeof null === 'object' passes the guard before it.
FieldStructureThrows(field) == field.foreign_key.kind = "null"

FieldStructureErrors(modelName, field) ==
  (IF ~Truthy(field.field_type) \/ field.field_type.kind # "string"
   THEN <<createError("MISSING_METADATA", "field_type", <<modelName, field.name>>)>>
   ELSE <<>>)
  \o
  (IF field.foreign_key.kind = "undefined" THEN <<>>
   ELSE IF ~TypeofObject(field.foreign_key)
   THEN <<createError("MISSING_METADATA", "foreign_key", <<modelName, field.name>>)>>
   ELSE (IF field.foreign_key.table = ""
         THEN <<createError("MISSING_METADATA", "foreign_key.table", <<modelName, field.name>>)>>
         ELSE <<>>)
        \o
        (IF field.foreign_key.column = ""
         THEN <<createError("MISSING_METADATA", "foreign_key.column", <<modelName, field.name>>)>>
         ELSE <<>>))

\* The checks of the index k of a model.
IndexStructureErrors(modelName, k, index) ==
  IF ~Truthy(index) \/ ~TypeofObject(index)
  THEN <<createError("MISSING_METADATA", "index", <<modelName, ToString(k - 1)>>)>>
  ELSE (IF ~Truthy(Get(index, "index_name")) \/ ~TypeofString(Get(index, "index_name"))
        THEN <<createError("MISSING_METADATA", "index.index_name",
                           <<modelName, ToString(k - 1)>>)>>
        ELSE <<>>)
       \o
       (IF ~Truthy(Get(index, "columns")) \/ ~IsArray(Get(index, "columns"))
        THEN <<createError("MISSING_METADATA", "index.columns",
                           <<modelName, ToString(k - 1)>>)>>
        ELSE <<>>)
       \o
       (IF Get(index, "unique") # Undefined /\ ~TypeofBoolean(Get(index, "unique"))
        THEN <<createError("MISSING_METADATA", "index.unique",
                           <<modelName, ToString(k - 1)>>)>>
        ELSE <<>>)

\* The checks of the indexes of a model
IndexesStructureErrors(model) ==
  IF Get(model, "indexes") = Undefined THEN <<>>
  ELSE IF ~IsArray(model.indexes)
  THEN <<createError("MISSING_METADATA", "indexes", <<model.name>>)>>
  ELSE Flatten([k \in 1..Len(model.indexes.entries) |->
                  IndexStructureErrors(model.name, k, model.indexes.entries[k])])

\* The checks of one model: a model without a fields object gets one error
\* and, by the `continue', none of the checks of its fields and indexes.
\* (No document here has unique_constraints or enums: their checks are
\* left out.)
ModelStructureErrors(model) ==
  IF ~HasFields(model)
  THEN <<createError("MISSING_METADATA", "fields", <<model.name>>)>>
  ELSE Flatten([j \in 1..Len(Fields(model)) |->
                  FieldStructureErrors(model.name, Fields(model)[j])])
       \o IndexesStructureErrors(model)

\* validateERDStructure leaves by a TypeError when it reaches a field whose
\* checks throw; the errors pushed before that are lost with it.
validateERDStructureThrows(diagram) ==
  /\ HasModels(diagram)
  /\ \E i \in 1..Len(Models(diagram)) :
       /\ HasFields(Models(diagram)[i])
       /\ \E j \in 1..Len(Fields(Models(diagram)[i])) :
            FieldStructureThrows(Fields(Models(diagram)[i])[j])

\* The errors validateERDStructure returns (when it does not throw).
validateERDStructure(diagram) ==
  IF ~HasModels(diagram)
  THEN <<createError("MISSING_METADATA", "models", <<>>)>>
  ELSE Flatten([i \in 1..Len(Models(diagram)) |->
                  ModelStructureErrors(Models(diagram)[i])])

\* ---------------------------------------------------------------------
\* validators/referenceValidator.ts
\* ---------------------------------------------------------------------

\* The objects yaml.parse builds are plain objects: a key they do not hold
\* themselves is looked up in Object.prototype, whose members are functions.
ObjectPrototypeKeys == {"constructor", "toString", "valueOf", "hasOwnProperty"}
FunctionValue == [kind |-> "function"]

\* targetModel.fields[key]
GetField(model, key) ==
  LET fs == Fields(model) IN
  IF \E j \in 1..Len(fs) : fs[j].name = key
  THEN fs[CHOOSE j \in 1..Len(fs) : fs[j].name = key]
  ELSE IF key \in ObjectPrototypeKeys THEN FunctionValue
  ELSE Undefined

FieldReferenceErrors(diagram, modelName, field) ==
  LET fk == field.foreign_key IN
  IF ~Truthy(fk) THEN <<>>
  ELSE IF fk.table = "" THEN <<>>
  ELSE IF fk.table \notin SeqToSet(ModelNames(diagram))
  THEN <<createError("FK_TABLE_NOT_FOUND", fk.table, <<modelName, field.name>>)>>
  ELSE IF fk.column = "" THEN <<>>
  ELSE LET targetModel == ModelByName(diagram, fk.table) IN
       IF ~Truthy(targetModel) \/ ~HasFields(targetModel) THEN <<>>
       ELSE IF ~Truthy(GetField(targetModel, fk.column))
       THEN <<createError("FK_COLUMN_NOT_FOUND", fk.column, <<modelName, field.name>>)>>
       ELSE <<>>

validateERDReferences(diagram) ==
  IF ~HasModels(diagram) THEN <<>>
  ELSE Flatten([i \in 1..Len(Models(diagram)) |->
         LET model == Models(diagram)[i] IN
         IF ~HasFields(model) THEN <<>>
         ELSE Flatten([j \in 1..Len(Fields(model)) |->
                FieldReferenceErrors(diagram, model.name, Fields(model)[j])])])

\* ---------------------------------------------------------------------
\* validators/layoutValidator.ts : validateERDLayout
\* ---------------------------------------------------------------------

\* The dependency graph: for each model, the tables its foreign keys name,
\* in field order, keeping only tables that are models and are not the
\* model itself.
\* FieldDependency without the exclusion of self-references
FieldDependencyWithSelf(names, modelName, field) ==
  IF /\ Truthy(field.foreign_key)
     /\ field.foreign_key.table # ""
     /\ field.foreign_key.table \in names
  THEN <<field.foreign_key.table>>
  ELSE <<>>

FieldDependency(names, modelName, field) ==
  IF /\ Truthy(field.foreign_key)
     /\ field.foreign_key.table # ""
     /\ field.foreign_key.table \in names
     /\ field.foreign_key.table # modelName
  THEN <<field.foreign_key.table>>
  ELSE <<>>

dependencies(diagram) ==
  LET names == SeqToSet(ModelNames(diagram)) IN
  [n \in names |->
     LET model == ModelByName(diagram, n) IN
     IF ~HasFields(model) THEN <<>>
     ELSE Flatten([j \in 1..Len(Fields(model)) |->
                     FieldDependency(names, n, Fields(model)[j])])]

\* hasCycle(node): depth-first search over `deps'.  The visited set and the
\* recursion stack are the closure's variables; st carries them, and
\* st.result is the value returned.  A node is taken off the recursion
\* stack only when the search below it found no cycle.
RECURSIVE hasCycle(_, _, _)
RECURSIVE hasCycleDeps(_, _, _, _)
hasCycle(deps, node, st) ==
  IF node \in st.recursionStack THEN [st EXCEPT !.result = TRUE]
  ELSE IF node \in st.visited THEN [st EXCEPT !.result = FALSE]
  ELSE LET entered == [result |-> FALSE,
                       visited |-> st.visited \cup {node},
                       recursionStack |-> st.recursionStack \cup {node}]
           after == hasCycleDeps(deps, deps[node], 1, entered)
       IN IF after.result THEN after
          ELSE [after EXCEPT !.recursionStack = @ \ {node}]

\* for (const dep of deps) { if (hasCycle(dep)) return true; }
hasCycleDeps(deps, ds, k, st) ==
  IF k > Len(ds) THEN [st EXCEPT !.result = FALSE]
  ELSE LET r == hasCycle(deps, ds[k], st) IN
       IF r.result THEN r ELSE hasCycleDeps(deps, ds, k + 1, r)

\* for (const modelName of modelNames) { if (hasCycle(modelName)) {...; break;} }
RECURSIVE CycleScan(_, _, _, _)
CycleScan(deps, names, k, st) ==
  IF k > Len(names) THEN <<>>
  ELSE LET r == hasCycle(deps, names[k], st) IN
       IF r.result
       THEN <<createError("CIRCULAR_DEPENDENCY", "models", <<names[k]>>)>>
       ELSE CycleScan(deps, names, k + 1, r)

validateERDLayout(diagram) ==
  IF ~HasModels(diagram) THEN <<>>
  ELSE CycleScan(dependencies(diagram), ModelNames(diagram), 1,
                 [result |-> FALSE, visited |-> {}, recursionStack |-> {}])

\* ---------------------------------------------------------------------
\* validators/layoutValidator.ts : validateSequenceLayout
\* ---------------------------------------------------------------------

\* (a.sequence_order || 0): the sort key of a message.  sequence_order is
\* a number in every message of the model, and 0 is the only falsy one.
OrderKey(m) == m.sequence_order

\* Array.prototype.sort with the comparator a - b: a stable sort, here by
\* insertion of each element after the last one that is not larger.
RECURSIVE InsertSorted(_, _)
InsertSorted(sorted, m) ==
  IF sorted = <<>> THEN <<m>>
  ELSE IF OrderKey(sorted[Len(sorted)]) <= OrderKey(m) THEN Append(sorted, m)
  ELSE Append(InsertSorted(SubSeq(sorted, 1, Len(sorted) - 1), m), sorted[Len(sorted)])

\* SortMessages that leaves the messages in document order
SortMessagesUnsorted(ms) == ms

RECURSIVE SortMessages(_)
SortMessages(ms) ==
  IF ms = <<>> THEN <<>>
  ELSE InsertSorted(SortMessages(SubSeq(ms, 1, Len(ms) - 1)), ms[Len(ms)])

\* OrderingScan without the break: an error for every position out of order
RECURSIVE OrderingScanNoBreak(_, _)
OrderingScanNoBreak(sorted, i) ==
  IF i >= Len(sorted) THEN <<>>
  ELSE (IF sorted[i + 1].sequence_order # i + 1
        THEN <<createError("INVALID_SEQUENCE_ORDER", "order",
                           <<i + 1, sorted[i + 1].sequence_order, i>>)>>
        ELSE <<>>)
       \o OrderingScanNoBreak(sorted, i + 1)

\* for (let i = 0; ...) { if (actualOrder !== expectedOrder) {...; break;} }
\* i is the 0-based position.
RECURSIVE OrderingScan(_, _)
OrderingScan(sorted, i) ==
  IF i >= Len(sorted) THEN <<>>
  ELSE IF sorted[i + 1].sequence_order # i + 1
  THEN <<createError("INVALID_SEQUENCE_ORDER", "order",
                     <<i + 1, sorted[i + 1].sequence_order, i>>)>>
  ELSE OrderingScan(sorted, i + 1)

DuplicateOrderErrors(ms) ==
  IF Len(ms) # Cardinality({ms[i].sequence_order : i \in 1..Len(ms)})
  THEN <<createError("INVALID_SEQUENCE_ORDER", "duplicate", <<>>)>>
  ELSE <<>>

\* validateSequenceLayout that looks for duplicates only when the ordering
\* loop found nothing
validateSequenceLayoutStopAtFirst(diagram) ==
  IF ~Truthy(diagram.messages) THEN <<>>
  ELSE IF OrderingScan(SortMessages(diagram.messages.entries), 0) # <<>>
  THEN OrderingScan(SortMessages(diagram.messages.entries), 0)
  ELSE DuplicateOrderErrors(diagram.messages.entries)

validateSequenceLayout(diagram) ==
  IF ~Truthy(diagram.messages) THEN <<>>
  ELSE OrderingScan(SortMessages(diagram.messages.entries), 0)
       \o DuplicateOrderErrors(diagram.messages.entries)

\* ---------------------------------------------------------------------
\* validators/layoutValidator.ts : validateFlowLayout
\* ---------------------------------------------------------------------

\* adjacency: for each declared node id, the targets of the edges that
\* leave it, in edge order; an edge whose source is no declared node is
\* dropped (adjacency.get(edge.source)?.push).
\* adjacency with every edge followed from its target to its source
adjacencyReversed(diagram) ==
  LET nodes == diagram.nodes.entries
      edges == diagram.edges.entries
  IN [id \in {nodes[i].id : i \in 1..Len(nodes)} |->
        Flatten([k \in 1..Len(edges) |->
                   IF edges[k].target = id THEN <<edges[k].source>> ELSE <<>>])]

adjacency(diagram) ==
  LET nodes == diagram.nodes.entries
      edges == diagram.edges.entries
  IN [id \in {nodes[i].id : i \in 1..Len(nodes)} |->
        Flatten([k \in 1..Len(edges) |->
                   IF edges[k].source = id THEN <<edges[k].target>> ELSE <<>>])]

\* traverse(nodeId): marks nodeId reachable, then its neighbours; a node id
\* without an adjacency entry has no neighbours (adjacency.get(..) || []).
RECURSIVE traverse(_, _, _)
RECURSIVE traverseNeighbors(_, _, _, _)
traverse(adj, nodeId, reachable) ==
  IF nodeId \in reachable THEN reachable
  ELSE traverseNeighbors(adj,
                         IF nodeId \in DOMAIN adj THEN adj[nodeId] ELSE <<>>,
                         1, reachable \cup {nodeId})

traverseNeighbors(adj, neighbors, k, reachable) ==
  IF k > Len(neighbors) THEN reachable
  ELSE traverseNeighbors(adj, neighbors, k + 1, traverse(adj, neighbors[k], reachable))

\* for (const startNode of startNodes) traverse(startNode.id)
RECURSIVE traverseAll(_, _, _, _)
traverseAll(adj, startNodes, k, reachable) ==
  IF k > Len(startNodes) THEN reachable
  ELSE traverseAll(adj, startNodes, k + 1, traverse(adj, startNodes[k].id, reachable))

IsStart(n) == n.type = "start"
IsDecision(n) == n.type = "decision"

UnreachableErrors(nodes, reachable) ==
  Flatten([i \in 1..Len(nodes) |->
             IF nodes[i].type # "start" /\ nodes[i].id \notin reachable
             THEN <<createError("UNREACHABLE_NODE", "nodes", <<nodes[i].id>>)>>
             ELSE <<>>])

DecisionErrors(nodes, edges) ==
  Flatten([i \in 1..Len(nodes) |->
             IF /\ IsDecision(nodes[i])
                /\ Cardinality({k \in 1..Len(edges) : edges[k].source = nodes[i].id}) < 2
             THEN <<createError("MISSING_METADATA", "decision", <<nodes[i].id>>)>>
             ELSE <<>>])

validateFlowLayout(diagram) ==
  IF ~Truthy(diagram.nodes) \/ ~Truthy(diagram.edges) THEN <<>>
  ELSE LET nodes == diagram.nodes.entries
           edges == diagram.edges.entries
           startNodes == SelectSeq(nodes, IsStart)
       IN IF Len(startNodes) = 0 THEN <<>>
          ELSE UnreachableErrors(nodes,
                                 traverseAll(adjacency(diagram), startNodes, 1, {}))
               \o DecisionErrors(nodes, edges)

\* ---------------------------------------------------------------------
\* validators/bestPracticesValidator.ts : validateERDBestPractices
\* ---------------------------------------------------------------------

\* The columns of every declared index of the model.
indexedFields(model) ==
  UNION {SeqToSet(model.indexes.entries[k].columns.entries) :
           k \in {o \in 1..Len(model.indexes.entries) :
                    /\ Truthy(model.indexes.entries[o])
                    /\ TypeofObject(model.indexes.entries[o])
                    /\ IsArray(Get(model.indexes.entries[o], "columns"))}}

ModelWarnings(model) ==
  IF ~HasFields(model) THEN <<>>
  ELSE (IF \E j \in 1..Len(Fields(model)) : Get(Fields(model)[j], "primary_key") = Bool(TRUE)
        THEN <<>>
        ELSE <<createWarning("MISSING_PRIMARY_KEY", "models", <<model.name>>)>>)
       \o
       (IF ~Truthy(model.indexes) \/ ~IsArray(model.indexes) THEN <<>>
        ELSE Flatten([j \in 1..Len(Fields(model)) |->
               IF /\ Truthy(Fields(model)[j].foreign_key)
                  /\ Fields(model)[j].name \notin indexedFields(model)
               THEN <<createWarning("FK_WITHOUT_INDEX", "fields",
                                    <<model.name, Fields(model)[j].name>>)>>
               ELSE <<>>]))

validateERDBestPractices(diagram) ==
  IF ~HasModels(diagram) THEN <<>>
  ELSE Flatten([i \in 1..Len(Models(diagram)) |-> ModelWarnings(Models(diagram)[i])])

\* ---------------------------------------------------------------------
\* validators/diagramValidator.ts : the private methods of DiagramValidator
\* ---------------------------------------------------------------------

\* const validTypes: DiagramType[] = ['erd']
validTypes == {"erd"}

\* detectDiagramType throws an Error for a truthy diagram_type that is no
\* valid type.
detectDiagramTypeThrows(parsed) ==
  /\ Truthy(parsed.diagram_type)
  /\ parsed.diagram_type.value \notin validTypes

\* detectDiagramType: 'erd' for a falsy diagram_type, else the value itself.
detectDiagramType(parsed) ==
  IF ~Truthy(parsed.diagram_type) THEN "erd" ELSE parsed.diagram_type.value

\* The structure checks common to every diagram kind.
CommonStructureErrors(parsed) ==
  (IF ~Truthy(parsed.diagram_type) THEN <<>>
   ELSE IF parsed.diagram_type.value \notin {"erd"}
   THEN <<createError("INVALID_DIAGRAM_TYPE", "diagram_type", <<>>)>>
   ELSE <<>>)
  \o
  (IF ~Truthy(parsed.metadata) THEN <<createError("MISSING_METADATA", "metadata", <<>>)>>
   ELSE IF ~Truthy(parsed.metadata.name)
   THEN <<createError("MISSING_METADATA_NAME", "metadata.name", <<>>)>>
   ELSE <<>>)

validateStructureThrows(parsed, diagramType) ==
  diagramType = "erd" /\ validateERDStructureThrows(parsed)

validateStructure(parsed, diagramType) ==
  CommonStructureErrors(parsed)
  \o (IF diagramType = "erd" THEN validateERDStructure(parsed) ELSE <<>>)

validateReferences(parsed, diagramType) ==
  IF diagramType = "erd" THEN validateERDReferences(parsed) ELSE <<>>

validateLayout(parsed, diagramType) ==
  IF diagramType = "erd" THEN validateERDLayout(parsed) ELSE <<>>

validateBestPractices(parsed, diagramType) ==
  IF diagramType = "erd" THEN validateERDBestPractices(parsed) ELSE <<>>

\* ---------------------------------------------------------------------
\* The documents given to the validators
\* ---------------------------------------------------------------------

\* All sequences over S of length at most n.
RECURSIVE SeqsUpTo(_, _)
SeqsUpTo(S, n) == IF n = 0 THEN {<<>>} ELSE SeqsUpTo(S, n - 1) \cup [1..n -> S]

Field(name, pk, fk) ==
  [kind |-> "object", name |-> name, field_type |-> Str("Int"),
   primary_key |-> Bool(pk), foreign_key |-> fk]

Model(name, fields, indexes) ==
  [kind |-> "object", name |-> name, fields |-> fields, indexes |-> indexes]

Document(diagram_type, metadata, models, nodes, edges, messages) ==
  [kind |-> "object", diagram_type |-> diagram_type, metadata |-> metadata,
   models |-> models, nodes |-> nodes, edges |-> edges, messages |-> messages]

Metadata(name) == [kind |-> "object", name |-> name]

\* --- documents of validate -------------------------------------------

\* A column name that names no field and is a member of every object.
InheritedColumn == "constructor"

ColumnNames == {IdField, MissingColumn, InheritedColumn}

TableNames == {ModelName(i) : i \in 1..MaxModels} \cup {Ghost}

\* foreign_key of the optional field: written empty (null), or an object
ForeignKeyValues ==
  {NullValue} \cup {ForeignKey(t, c) : t \in TableNames, c \in ColumnNames}

\* fields of a model: the key missing, or an id field (primary key or not)
\* followed by at most one foreign-key field
FieldsValues ==
  {Undefined}
  \cup {Obj(<<Field(IdField, pk, Undefined)>>) : pk \in BOOLEAN}
  \cup {Obj(<<Field(IdField, pk, Undefined), Field(RefField, FALSE, fk)>>) :
          pk \in BOOLEAN, fk \in ForeignKeyValues}

\* models: the key missing, or an object of at most n models
ModelsValues(n) ==
  {Undefined}
  \cup {Obj([i \in 1..Len(fs) |-> Model(ModelName(i), fs[i], Undefined)]) :
          fs \in SeqsUpTo(FieldsValues, n)}

DiagramTypeValues ==
  {Undefined, Str(""), Str("erd"), Str("flow"), Str("sequence"), Str("mindmap")}

MetadataValues == {Undefined, Metadata(Undefined), Metadata(Str("Shop"))}

ErdDocuments(n) ==
  {Document(dt, md, ms, Undefined, Undefined, Undefined) :
     dt \in DiagramTypeValues, md \in MetadataValues, ms \in ModelsValues(n)}

\* A flow and a sequence document as validate receives them: the flow of
\* four nodes with an orphan, and three messages ordered 1, 2, 4.
Node(id, type) == [kind |-> "object", id |-> id, type |-> type]
Edge(source, target) == [kind |-> "object", source |-> source, target |-> target]
Message(order) == [kind |-> "object", sequence_order |-> order]

OrphanFlow ==
  Document(Str("flow"), Metadata(Str("Orders")), Undefined,
           Arr(<<Node("start", "start"), Node("a", "process"),
                 Node("b", "process"), Node("orphan", "process")>>),
           Arr(<<Edge("start", "a"), Edge("a", "b")>>),
           Undefined)

GappedSequence ==
  Document(Str("sequence"), Metadata(Str("Login")), Undefined, Undefined, Undefined,
           Arr(<<Message(1), Message(2), Message(4)>>))

\* The text given to validate, by what yaml.parse makes of it: a syntax
\* error, an empty document (null), a scalar, or an object.
Malformed == [kind |-> "malformed"]

YamlContents(n) ==
  {Malformed, NullValue, Str("just text")}
  \cup ErdDocuments(n) \cup {OrphanFlow, GappedSequence}

yamlParseThrows(yamlContent) == yamlContent.kind = "malformed"
yamlParse(yamlContent) == yamlContent

\* --- documents of validateERDLayout -----------------------------------

\* The sum of the first i entries of a sequence of numbers.
RECURSIVE SumTo(_, _)
SumTo(ls, i) == IF i = 0 THEN 0 ELSE SumTo(ls, i - 1) + ls[i]

\* Model `name' with an id field and a foreign-key field for each table.
GraphModel(name, ts) ==
  Model(name,
        Obj(<<Field(IdField, TRUE, Undefined)>>
            \o [k \in 1..Len(ts) |-> Field(FieldName(k), FALSE, ForeignKey(ts[k], IdField))]),
        Undefined)

\* The document of n models in which model i has ls[i] foreign keys, whose
\* tables are the next ls[i] entries of `tables'.
ErdGraphDocument(n, ls, tables) ==
  Document(Str("erd"), Metadata(Str("Shop")),
           Obj([i \in 1..n |->
                  GraphModel(ModelName(i),
                             SubSeq(tables, SumTo(ls, i - 1) + 1, SumTo(ls, i)))]),
           Undefined, Undefined, Undefined)

\* --- documents of validateSequenceLayout ------------------------------

\* At most n messages, each sequence_order in 0..n+1.
SequenceDocuments(n) ==
  {Document(Str("sequence"), Metadata(Str("Login")), Undefined, Undefined, Undefined, ms) :
     ms \in {Undefined}
            \cup {Arr([i \in 1..Len(os) |-> Message(os[i])]) :
                    os \in SeqsUpTo(0..(n + 1), n)}}

\* --- documents of validateFlowLayout ----------------------------------

NodeName(i) == "n" \o ToString(i)
NodeTypes == {"start", "process", "decision"}

\* The flow document of the nodes of types ts, named in order, and the
\* edges es (pairs source, target).
FlowDocument(ts, es) ==
  Document(Str("flow"), Metadata(Str("Orders")), Undefined,
           Arr([i \in 1..Len(ts) |-> Node(NodeName(i), ts[i])]),
           Arr([k \in 1..Len(es) |-> Edge(es[k][1], es[k][2])]),
           Undefined)

\* ---------------------------------------------------------------------
\* yamlParser.ts, in its two versions: the one that reads the snake_case
\* keys (field_type, primary_key, ...) and the one that reads the camelCase
\* keys (type, primaryKey, ...).  attributes and constraints are read
\* through ?. and are flattened into the field here.
\* ---------------------------------------------------------------------

\* convertYamlField of the snake_case version
convertYamlFieldSnake(name, yamlField) ==
  LET fk == Get(yamlField, "foreign_key")
      virtual == Get(yamlField, "virtual")
  IN [name |-> name,
      type |-> Get(yamlField, "field_type"),
      isId |-> OrFalse(Get(yamlField, "primary_key")),
      isUnique |-> OrFalse(Get(yamlField, "unique")),
      isRequired |-> OrFalse(Get(yamlField, "not_null")),
      isList |-> OrFalse(Get(yamlField, "is_list")),
      hasDefault |-> Bool(Truthy(Get(yamlField, "default_value"))),
      isForeignKey |-> Bool(Truthy(fk)),
      isEnum |-> Bool(FALSE),
      relationToModel |-> IF Truthy(virtual) THEN Get(yamlField, "field_type")
                          ELSE IF Truthy(fk) THEN Str(fk.table)
                          ELSE Undefined,
      referencesField |-> IF Truthy(fk) THEN Str(fk.column) ELSE Undefined,
      relationName |-> IF Truthy(virtual) /\ Truthy(Get(yamlField, "relation_name"))
                       THEN Get(yamlField, "relation_name")
                       ELSE Undefined]

\* convertYamlField of the camelCase version
convertYamlFieldCamel(name, yamlField) ==
  LET fk == Get(yamlField, "foreignKey")
      virtual == Get(yamlField, "virtual")
  IN [name |-> name,
      type |-> Get(yamlField, "type"),
      isId |-> OrFalse(Get(yamlField, "primaryKey")),
      isUnique |-> OrFalse(Get(yamlField, "unique")),
      isRequired |-> OrFalse(Get(yamlField, "notNull")),
      isList |-> OrFalse(Get(yamlField, "list")),
      hasDefault |-> Bool(Truthy(Get(yamlField, "default"))),
      isForeignKey |-> Bool(Truthy(fk)),
      isEnum |-> Bool(FALSE),
      relationToModel |-> IF Truthy(virtual) THEN Get(yamlField, "type")
                          ELSE IF Truthy(fk) THEN Str(fk.table)
                          ELSE Undefined,
      referencesField |-> IF Truthy(fk) THEN Str(fk.column) ELSE Undefined,
      relationName |-> IF Truthy(virtual) /\ Truthy(Get(yamlField, "relationName"))
                       THEN Get(yamlField, "relationName")
                       ELSE Undefined]

\* convertYamlModel: the name and the converted fields, in document order
\* (color and group are left out: no claim reads them)
convertYamlModelSnake(yamlModel) ==
  [name |-> yamlModel.name,
   fields |-> IF HasFields(yamlModel)
              THEN [j \in 1..Len(Fields(yamlModel)) |->
                      convertYamlFieldSnake(Fields(yamlModel)[j].name, Fields(yamlModel)[j])]
              ELSE <<>>]

convertYamlModelCamel(yamlModel) ==
  [name |-> yamlModel.name,
   fields |-> IF HasFields(yamlModel)
              THEN [j \in 1..Len(Fields(yamlModel)) |->
                      convertYamlFieldCamel(Fields(yamlModel)[j].name, Fields(yamlModel)[j])]
              ELSE <<>>]

\* What a parser gives back: a schema, or the Error it throws.
Schema(models) == [kind |-> "schema", models |-> models]
ParseError == [kind |-> "error"]

\* parseYamlSchema of the snake_case version: only ERD documents
parseYamlSchemaSnake(content) ==
  IF yamlParseThrows(content) THEN ParseError
  ELSE LET parsedYaml == yamlParse(content) IN
       IF parsedYaml.kind = "null" THEN ParseError
       ELSE IF /\ Truthy(Get(parsedYaml, "diagram_type"))
               /\ Get(parsedYaml, "diagram_type") # Str("erd")
       THEN ParseError
       ELSE IF parsedYaml.kind # "object" \/ ~Truthy(Get(parsedYaml, "models"))
       THEN Schema(<<>>)
       ELSE Schema([i \in 1..Len(Models(parsedYaml)) |->
                      convertYamlModelSnake(Models(parsedYaml)[i])])

\* parseYamlSchema of the camelCase version: diagram_type is not read
parseYamlSchemaCamel(content) ==
  IF yamlParseThrows(content) THEN ParseError
  ELSE LET parsedYaml == yamlParse(content) IN
       IF parsedYaml.kind = "null" THEN ParseError
       ELSE IF parsedYaml.kind # "object" \/ ~Truthy(Get(parsedYaml, "models"))
       THEN Schema(<<>>)
       ELSE Schema([i \in 1..Len(Models(parsedYaml)) |->
                      convertYamlModelCamel(Models(parsedYaml)[i])])

\* ---------------------------------------------------------------------
\* prismaParser.ts : parsePrismaSchema, parseField, buildRelations
\* ---------------------------------------------------------------------

\* parseField of a line `name type', with or without @relation("relation")
\* and with or without @relation(fields:[..]): the type is kept as the
\* related model when the line has @relation, and the field is a foreign
\* key when the @relation part holds fields:[..].
parseField(line) ==
  [name |-> line.name,
   type |-> Str(line.type),
   isId |-> Bool(FALSE),
   isUnique |-> Bool(FALSE),
   isRequired |-> Bool(TRUE),
   isList |-> Bool(FALSE),
   hasDefault |-> Bool(FALSE),
   isForeignKey |-> Bool(line.fields),
   isEnum |-> Bool(FALSE),
   relationToModel |-> IF Truthy(line.relation) \/ line.fields THEN Str(line.type)
                       ELSE Undefined,
   relationName |-> line.relation]

\* schema.models.find(m => m.name === name), as an index; 0 for undefined
FindModel(models, name) ==
  IF \E i \in 1..Len(models) : models[i].name = name
  THEN CHOOSE i \in 1..Len(models) :
         models[i].name = name /\ \A k \in 1..(i - 1) : models[k].name # name
  ELSE 0

\* model.fields.find(f => f.name === name), as an index; 0 for undefined
FindField(fields, name) ==
  IF \E j \in 1..Len(fields) : fields[j].name = name
  THEN CHOOSE j \in 1..Len(fields) :
         fields[j].name = name /\ \A k \in 1..(j - 1) : fields[k].name # name
  ELSE 0

\* The first pass of buildRelations: the fields that have a relationName,
\* in order, each with its model and its relation.
RelationFields(models) ==
  Flatten([i \in 1..Len(models) |->
    LET named == SelectSeq(models[i].fields, LAMBDA f : Truthy(f.relationName)) IN
    [j \in 1..Len(named) |->
       [fromModel |-> models[i].name, fromField |-> named[j].name,
        relationName |-> named[j].relationName]]])

\* The second pass, for the fields of one relation: two fields are linked
\* to each other's model.
LinkFields(models, relationFields) ==
  IF Len(relationFields) # 2 THEN models
  ELSE LET field1 == relationFields[1]
           field2 == relationFields[2]
           i1 == FindModel(models, field1.fromModel)
           i2 == FindModel(models, field2.fromModel)
       IN IF i1 = 0 \/ i2 = 0 THEN models
          ELSE LET j1 == FindField(models[i1].fields, field1.fromField)
                   j2 == FindField(models[i2].fields, field2.fromField)
                   linked1 == IF j1 = 0 THEN models
                              ELSE [models EXCEPT ![i1].fields[j1].relationToModel =
                                                    Str(field2.fromModel)]
               IN IF j2 = 0 THEN linked1
                  ELSE [linked1 EXCEPT ![i2].fields[j2].relationToModel =
                                         Str(field1.fromModel)]

\* The second pass over the relations from position k on.
RECURSIVE LinkRelations(_, _, _)
LinkRelations(models, relationFields, k) ==
  IF k > Len(relationFields) THEN models
  ELSE IF \E h \in 1..(k - 1) :
            relationFields[h].relationName = relationFields[k].relationName
  THEN LinkRelations(models, relationFields, k + 1)
  ELSE LinkRelations(
         LinkFields(models,
                    SelectSeq(relationFields,
                              LAMBDA r : r.relationName = relationFields[k].relationName)),
         relationFields, k + 1)

buildRelations(models) == LinkRelations(models, RelationFields(models), 1)

\* parsePrismaSchema of a text of model blocks (categorizeModels, which
\* sets group and color, is left out: no claim reads them)
parsePrismaSchema(content) ==
  Schema(buildRelations(
    [i \in 1..Len(content.models) |->
       [name |-> content.models[i].name,
        fields |-> [j \in 1..Len(content.models[i].lines) |->
                      parseField(content.models[i].lines[j])]]]))

\* ---------------------------------------------------------------------
\* State
\* ---------------------------------------------------------------------

VARIABLES
  yamlContent,      \* the argument of validate
  pc,               \* where the call of validate stands
  parsed,           \* const parsed
  diagramType,      \* const diagramType
  structureErrors,  \* const structureErrors
  referenceErrors,  \* const referenceErrors
  layoutErrors,     \* const layoutErrors
  warnings,         \* const warnings
  result,           \* the ValidationResult returned
  ran,              \* the phases that have run, in order
  diagram,          \* the argument of a validator called on its own
  called,           \* the validator called on `diagram', "" before the call
  errors,           \* what that validator returned
  parseLog,         \* the parser calls made: parser, content and what it returned
  initialData,      \* window.vscodeInitialData.yamlSchema of the webview
  effect,           \* where the initial-data effect of App stands
  currentSchemaRef, \* currentSchemaRef.current
  diagramKind,      \* the diagramKind state of App
  nodes,            \* the nodes state of App
  edges,            \* the edges state of App
  calls,            \* the validate calls in flight: argument, position, result
  frames,           \* the local constants of each validate call
  schedule,         \* the calls that ran, a step each, in order
  pending,          \* the nodes the loop over modelNames, startNodes has left
  stack,            \* the calls of hasCycle, traverse that are inside their loop
  callee,           \* the argument of the call being made, NoNode between calls
  returned,         \* what the call that just ended returned, "none" otherwise
  visited,          \* const visited of validateERDLayout
  recursionStack,   \* const recursionStack of validateERDLayout
  reachable,        \* const reachable of validateFlowLayout
  entered,          \* the nodes the calls went past their guards for, in order
  schemaType,       \* the schemaType state of App: "prisma", "yaml" or "null"
  isPrisma,         \* the isPrisma state of App
  isSaving,         \* the isSaving state of App
  toExtension,      \* the messages the webview posted, not yet received
  toWebview,        \* the messages the extension posted, not yet received
  dialogs,          \* the save dialogs that are open, by who opened each
  writes,           \* the calls of saveYaml that await writeFile
  saves             \* the clicks and commands of the user so far

validateVars == <<yamlContent, pc, parsed, diagramType, structureErrors,
                  referenceErrors, layoutErrors, warnings, result, ran>>
callVars == <<diagram, called, errors>>
parseVars == <<parseLog>>
webviewVars == <<initialData, effect, currentSchemaRef, diagramKind, nodes, edges>>
concurrentVars == <<calls, frames, schedule>>
walkVars == <<pending, stack, callee, returned, visited, recursionStack, reachable,
              entered>>
saveVars == <<schemaType, isPrisma, isSaving, toExtension, toWebview, dialogs, writes,
              saves>>
vars == <<validateVars, callVars, parseVars, webviewVars, concurrentVars, walkVars,
          saveVars>>

\* What a call of validate, of a validator, of a parser, and the webview
\* leave alone.
restOfValidate == <<callVars, parseVars, webviewVars, concurrentVars, walkVars, saveVars>>
restOfCall == <<validateVars, parseVars, webviewVars, concurrentVars, walkVars, saveVars>>
restOfParse == <<validateVars, callVars, webviewVars, concurrentVars, walkVars, saveVars>>
restOfWebview == <<validateVars, callVars, parseVars, concurrentVars, walkVars, saveVars>>
restOfConcurrent == <<validateVars, callVars, parseVars, webviewVars, walkVars, saveVars>>

\* ---------------------------------------------------------------------
\* validators/diagramValidator.ts : DiagramValidator.validate
\* ---------------------------------------------------------------------

\* The result returned for an empty or non-object document.
EmptyResult ==
  [isValid |-> FALSE,
   errors |-> <<createError("MISSING_METADATA", "YAML is empty or invalid", <<>>)>>,
   warnings |-> <<>>,
   diagramType |-> "erd"]

\* The result the catch block returns.
CatchResult ==
  [isValid |-> FALSE,
   errors |-> <<createError("MISSING_METADATA", "Failed to parse YAML", <<>>)>>,
   warnings |-> <<>>,
   diagramType |-> "erd"]

NoValidate ==
  /\ yamlContent = Undefined
  /\ pc = "idle"
  /\ parsed = Undefined
  /\ diagramType = ""
  /\ structureErrors = <<>>
  /\ referenceErrors = <<>>
  /\ layoutErrors = <<>>
  /\ warnings = <<>>
  /\ result = Undefined
  /\ ran = <<>>

NoCall ==
  /\ diagram = Undefined
  /\ called = ""
  /\ errors = <<>>

NoParse == parseLog = <<>>

\* App.tsx : initialNodes and initialEdges, the demonstration graph the
\* nodes and edges states start with (a node by its id, an edge by its ends)
initialNodes == <<"1", "2", "3", "4">>
initialEdges == <<[source |-> "1", target |-> "2"], [source |-> "1", target |-> "3"],
                  [source |-> "2", target |-> "4"], [source |-> "3", target |-> "4"]>>

\* The webview has no initial data: App shows its demonstration graph.
NoWebview ==
  /\ initialData = Undefined
  /\ effect = "none"
  /\ currentSchemaRef = NullValue
  /\ diagramKind = NullValue
  /\ nodes = initialNodes
  /\ edges = initialEdges

\* Nothing but validate, nothing but a validator, nothing but the parsers,
\* nothing but the webview, nothing but concurrent validate calls is at work.
NoConcurrent == calls = <<>> /\ frames = <<>> /\ schedule = <<>>

\* No call of hasCycle or traverse is on its way.
NoNode == "(none)"

NoWalk ==
  /\ pending = <<>>
  /\ stack = <<>>
  /\ callee = NoNode
  /\ returned = "none"
  /\ visited = {}
  /\ recursionStack = {}
  /\ reachable = {}
  /\ entered = <<>>

\* No Save as YAML is on its way and no schema has been loaded.
NoSave ==
  /\ schemaType = "null"
  /\ isPrisma = FALSE
  /\ isSaving = FALSE
  /\ toExtension = <<>>
  /\ toWebview = <<>>
  /\ dialogs = <<>>
  /\ writes = 0
  /\ saves = 0

OnlyValidate == NoCall /\ NoParse /\ NoWebview /\ NoConcurrent /\ NoWalk /\ NoSave
OnlyCall == NoValidate /\ NoParse /\ NoWebview /\ NoConcurrent /\ NoWalk /\ NoSave
OnlyParse == NoValidate /\ NoCall /\ NoWebview /\ NoConcurrent /\ NoWalk /\ NoSave
OnlyWebview == NoValidate /\ NoCall /\ NoParse /\ NoConcurrent /\ NoWalk /\ NoSave
OnlyConcurrent == NoValidate /\ NoCall /\ NoParse /\ NoWebview /\ NoWalk /\ NoSave

Init ==
  /\ yamlContent \in YamlContents(MaxModels)
  /\ pc = "parse"
  /\ parsed = Undefined
  /\ diagramType = ""
  /\ structureErrors = <<>>
  /\ referenceErrors = <<>>
  /\ layoutErrors = <<>>
  /\ warnings = <<>>
  /\ result = Undefined
  /\ ran = <<>>
  /\ OnlyValidate

\* return <result> from validate
Return(r) ==
  /\ result' = r
  /\ pc' = "done"

\* Parse with an empty or non-object document passed as a valid one
ParseAcceptsEmpty ==
  /\ pc = "parse"
  /\ IF yamlParseThrows(yamlContent)
     THEN Return(CatchResult) /\ UNCHANGED parsed
     ELSE IF ~Truthy(yamlParse(yamlContent)) \/ ~TypeofObject(yamlParse(yamlContent))
     THEN Return(aggregateResults(<<>>, <<>>, "erd")) /\ UNCHANGED parsed
     ELSE /\ parsed' = yamlParse(yamlContent)
          /\ pc' = "detect"
          /\ UNCHANGED result
  /\ UNCHANGED <<yamlContent, diagramType, structureErrors, referenceErrors,
                 layoutErrors, warnings, ran>>
  /\ UNCHANGED restOfValidate

\* const parsed = yaml.parse(yamlContent), and the check that follows it
Parse ==
  /\ pc = "parse"
  /\ IF yamlParseThrows(yamlContent)
     THEN Return(CatchResult) /\ UNCHANGED parsed
     ELSE IF ~Truthy(yamlParse(yamlContent)) \/ ~TypeofObject(yamlParse(yamlContent))
     THEN Return(EmptyResult) /\ UNCHANGED parsed
     ELSE /\ parsed' = yamlParse(yamlContent)
          /\ pc' = "detect"
          /\ UNCHANGED result
  /\ UNCHANGED <<yamlContent, diagramType, structureErrors, referenceErrors,
                 layoutErrors, warnings, ran>>
  /\ UNCHANGED restOfValidate

\* const diagramType = this.detectDiagramType(parsed)
DetectDiagramType ==
  /\ pc = "detect"
  /\ IF detectDiagramTypeThrows(parsed)
     THEN Return(CatchResult) /\ UNCHANGED diagramType
     ELSE /\ diagramType' = detectDiagramType(parsed)
          /\ pc' = "structure"
          /\ UNCHANGED result
  /\ UNCHANGED <<yamlContent, parsed, structureErrors, referenceErrors,
                 layoutErrors, warnings, ran>>
  /\ UNCHANGED restOfValidate

\* ValidateStructure without the return on a structure error
ValidateStructureNoReturn ==
  /\ pc = "structure"
  /\ ran' = Append(ran, "structure")
  /\ IF validateStructureThrows(parsed, diagramType)
     THEN Return(CatchResult) /\ UNCHANGED structureErrors
     ELSE /\ structureErrors' = validateStructure(parsed, diagramType)
          /\ pc' = "references"
          /\ UNCHANGED result
  /\ UNCHANGED <<yamlContent, parsed, diagramType, referenceErrors, layoutErrors,
                 warnings>>
  /\ UNCHANGED restOfValidate

\* Phase 1, and the return that skips the other phases on a structure error
ValidateStructure ==
  /\ pc = "structure"
  /\ ran' = Append(ran, "structure")
  /\ IF validateStructureThrows(parsed, diagramType)
     THEN Return(CatchResult) /\ UNCHANGED structureErrors
     ELSE /\ structureErrors' = validateStructure(parsed, diagramType)
          /\ IF Len(structureErrors') > 0
             THEN Return(aggregateResults(structureErrors', <<>>, diagramType))
             ELSE pc' = "references" /\ UNCHANGED result
  /\ UNCHANGED <<yamlContent, parsed, diagramType, referenceErrors, layoutErrors,
                 warnings>>
  /\ UNCHANGED restOfValidate

\* Phase 2
ValidateReferences ==
  /\ pc = "references"
  /\ ran' = Append(ran, "references")
  /\ referenceErrors' = validateReferences(parsed, diagramType)
  /\ pc' = "layout"
  /\ UNCHANGED <<yamlContent, parsed, diagramType, structureErrors, layoutErrors,
                 warnings, result>>
  /\ UNCHANGED restOfValidate

\* ValidateLayout that checks the layout only of a document without
\* reference errors
ValidateLayoutAfterCleanReferences ==
  /\ pc = "layout"
  /\ ran' = Append(ran, "layout")
  /\ layoutErrors' = IF Len(referenceErrors) > 0 THEN <<>>
                     ELSE validateLayout(parsed, diagramType)
  /\ pc' = "bestPractices"
  /\ UNCHANGED <<yamlContent, parsed, diagramType, structureErrors, referenceErrors,
                 warnings, result>>
  /\ UNCHANGED restOfValidate

\* Phase 3
ValidateLayout ==
  /\ pc = "layout"
  /\ ran' = Append(ran, "layout")
  /\ layoutErrors' = validateLayout(parsed, diagramType)
  /\ pc' = "bestPractices"
  /\ UNCHANGED <<yamlContent, parsed, diagramType, structureErrors, referenceErrors,
                 warnings, result>>
  /\ UNCHANGED restOfValidate

\* Phase 4, and the aggregation of all results
ValidateBestPractices ==
  /\ pc = "bestPractices"
  /\ ran' = Append(ran, "bestPractices")
  /\ warnings' = validateBestPractices(parsed, diagramType)
  /\ Return(aggregateResults(structureErrors \o referenceErrors \o layoutErrors,
                             warnings', diagramType))
  /\ UNCHANGED <<yamlContent, parsed, diagramType, structureErrors, referenceErrors,
                 layoutErrors>>
  /\ UNCHANGED restOfValidate

Next ==
  \/ Parse
  \/ DetectDiagramType
  \/ ValidateStructure
  \/ ValidateReferences
  \/ ValidateLayout
  \/ ValidateBestPractices

Spec == Init /\ [][Next]_vars

\* ---------------------------------------------------------------------
\* The layout validators called on their own
\* ---------------------------------------------------------------------

CallValidateERDLayout ==
  /\ called = ""
  /\ called' = "validateERDLayout"
  /\ errors' = validateERDLayout(diagram)
  /\ UNCHANGED <<diagram, restOfCall>>

\* MaxGraph models with at most MaxFks foreign keys in all, each naming a
\* model or no model.
InitERDLayout ==
  /\ OnlyCall
  /\ called = ""
  /\ errors = <<>>
  /\ \E ls \in [1..MaxGraph -> 0..MaxFks] :
       /\ SumTo(ls, MaxGraph) <= MaxFks
       /\ \E tables \in [1..SumTo(ls, MaxGraph) ->
                           {ModelName(i) : i \in 1..MaxGraph} \cup {Ghost}] :
            diagram = ErdGraphDocument(MaxGraph, ls, tables)

SpecERDLayout == InitERDLayout /\ [][CallValidateERDLayout]_vars

CallValidateSequenceLayout ==
  /\ called = ""
  /\ called' = "validateSequenceLayout"
  /\ errors' = validateSequenceLayout(diagram)
  /\ UNCHANGED <<diagram, restOfCall>>

InitSequenceLayout ==
  /\ OnlyCall
  /\ called = ""
  /\ errors = <<>>
  /\ diagram \in SequenceDocuments(MaxMessages)

SpecSequenceLayout == InitSequenceLayout /\ [][CallValidateSequenceLayout]_vars

CallValidateFlowLayout ==
  /\ called = ""
  /\ called' = "validateFlowLayout"
  /\ errors' = validateFlowLayout(diagram)
  /\ UNCHANGED <<diagram, restOfCall>>

\* At most MaxNodes nodes and at most MaxEdges edges.  An edge may name any
\* of MaxNodes node ids: with fewer nodes declared the last of them name no
\* node.  The flow of four nodes with an orphan is one more input.
InitFlowLayout ==
  /\ OnlyCall
  /\ called = ""
  /\ errors = <<>>
  /\ \/ diagram = OrphanFlow
     \/ \E n \in 0..MaxNodes, e \in 0..MaxEdges :
          \E ts \in [1..n -> NodeTypes],
             es \in [1..e -> {NodeName(i) : i \in 1..MaxNodes}
                             \X {NodeName(i) : i \in 1..MaxNodes}] :
            diagram = FlowDocument(ts, es)

SpecFlowLayout == InitFlowLayout /\ [][CallValidateFlowLayout]_vars

\* ---------------------------------------------------------------------
\* Properties of validate (specification Spec)
\* ---------------------------------------------------------------------

Done == pc = "done"

Codes(es) == {es[i].code : i \in 1..Len(es)}

\* The codes only the reference and layout phases give an error.
LaterPhaseCodes == {"FK_TABLE_NOT_FOUND", "FK_COLUMN_NOT_FOUND", "CIRCULAR_DEPENDENCY"}

\* The call has returned and its structure phase yielded at least one error.
StructureFailed == Done /\ Len(structureErrors) > 0

\* C1: when the structure phase yields at least one error, the result holds
\* exactly the structure-phase errors and no warning, and the reference,
\* layout and best-practice phases have not run.
C1_StructuralShortCircuit ==
  StructureFailed =>
    /\ result.errors = structureErrors
    /\ result.warnings = <<>>
    /\ ran = <<"structure">>
    /\ Codes(result.errors) \cap LaterPhaseCodes = {}
    /\ referenceErrors = <<>> /\ layoutErrors = <<>> /\ warnings = <<>>

\* A model without fields next to a dangling foreign key and a missing
\* primary key in another model: only the structural error is returned.
C1_Witness ==
  /\ StructureFailed
  /\ HasModels(parsed)
  /\ \E i \in 1..Len(Models(parsed)) : ~HasFields(Models(parsed)[i])
  /\ Len(validateERDReferences(parsed)) > 0
  /\ Len(validateERDBestPractices(parsed)) > 0
  /\ Len(result.errors) = 1

\* C2: in every result validate returns, isValid is true exactly when
\* errors is empty, whatever the warnings are.
C2_ValidIffNoErrors ==
  Done => (result.isValid <=> (Len(result.errors) = 0))

\* A valid result that carries a warning.
C2_Witness ==
  /\ Done
  /\ result.isValid
  /\ Len(result.warnings) > 0

\* C3: for a document whose diagram_type is flow or sequence, the result
\* names that kind and the phases of that kind have run: the flow with an
\* orphan node yields UNREACHABLE_NODE, the sequence ordered 1, 2, 4 yields
\* INVALID_SEQUENCE_ORDER.
C3_DeclaredKindValidated ==
  (/\ Done
   /\ yamlContent.kind = "object"
   /\ yamlContent.diagram_type \in {Str("flow"), Str("sequence")})
  => /\ result.diagramType = yamlContent.diagram_type.value
     /\ ran # <<>>
     /\ (yamlContent = OrphanFlow => "UNREACHABLE_NODE" \in Codes(result.errors))
     /\ (yamlContent = GappedSequence => "INVALID_SEQUENCE_ORDER" \in Codes(result.errors))

\* The result of the pipeline for `doc' read as an ERD document.
ResultAsErd(doc) ==
  LET erd == [doc EXCEPT !.diagram_type = Str("erd")] IN
  IF validateStructureThrows(erd, "erd") THEN CatchResult
  ELSE IF Len(validateStructure(erd, "erd")) > 0
  THEN aggregateResults(validateStructure(erd, "erd"), <<>>, "erd")
  ELSE aggregateResults(validateERDReferences(erd) \o validateERDLayout(erd),
                        validateERDBestPractices(erd), "erd")

\* The kinds the dialect knows.
RecognizedKinds == {"erd", "flow", "sequence"}

\* C4: a document without diagram_type gets the result of the same document
\* with diagram_type: erd, and a diagram_type value outside the recognized
\* kinds gets an error result at once, with no phase run.
C4_DiagramTypeDetection ==
  (Done /\ yamlContent.kind = "object") =>
    /\ yamlContent.diagram_type = Undefined => result = ResultAsErd(yamlContent)
    /\ (/\ yamlContent.diagram_type # Undefined
        /\ yamlContent.diagram_type.value \notin RecognizedKinds)
       => (~result.isValid /\ Len(result.errors) > 0 /\ ran = <<>>)

\* C5: when the text fails to parse, or parses to an empty or non-object
\* value, the result holds exactly one error and no warning, is invalid, and
\* no phase has run.
C5_ParseFailure ==
  (Done /\ (yamlParseThrows(yamlContent) \/ yamlContent.kind \in {"null", "string"}))
  => /\ Len(result.errors) = 1
     /\ result.warnings = <<>>
     /\ ~result.isValid
     /\ ran = <<>>
     /\ structureErrors = <<>> /\ referenceErrors = <<>>
     /\ layoutErrors = <<>> /\ warnings = <<>>

\* The text that fails to parse has been answered.
C5_Witness ==
  /\ Done
  /\ yamlParseThrows(yamlContent)
  /\ result.errors = <<createError("MISSING_METADATA", "Failed to parse YAML", <<>>)>>

\* The structure phase has run to its end and yielded no error.
StructurePassed ==
  /\ Done
  /\ ran # <<>>
  /\ ~validateStructureThrows(parsed, diagramType)
  /\ Len(validateStructure(parsed, diagramType)) = 0

\* C6: when the structure phase yields no error, the errors of the result
\* are the reference-phase errors followed by the layout-phase errors, none
\* dropped, and its warnings are the whole best-practice output.
C6_PhasesAccumulate ==
  StructurePassed =>
    /\ ran = <<"structure", "references", "layout", "bestPractices">>
    /\ result.errors = validateERDReferences(parsed) \o validateERDLayout(parsed)
    /\ result.warnings = validateERDBestPractices(parsed)

\* A result with a reference error, a layout error and a warning together.
C6_Witness ==
  /\ StructurePassed
  /\ Codes(result.errors) \cap {"FK_TABLE_NOT_FOUND", "FK_COLUMN_NOT_FOUND"} # {}
  /\ "CIRCULAR_DEPENDENCY" \in Codes(result.errors)
  /\ Len(result.warnings) > 0

\* ---------------------------------------------------------------------
\* Properties of validateERDLayout (specification SpecERDLayout)
\* ---------------------------------------------------------------------

\* The foreign-key graph of a document: an edge model -> other for every
\* foreign key of `model' that names another model of the document.
ModelFkEdges(names, m) ==
  IF ~HasFields(m) THEN {}
  ELSE {<<m.name, f.foreign_key.table>> :
          f \in {g \in SeqToSet(Fields(m)) :
                   /\ g.foreign_key.kind = "object"
                   /\ g.foreign_key.table \in names
                   /\ g.foreign_key.table # m.name}}

FkGraph(d) ==
  UNION {ModelFkEdges({o.name : o \in SeqToSet(Models(d))}, m) :
           m \in SeqToSet(Models(d))}

\* The nodes that a path of one or more edges of G leads to from a node of S.
RECURSIVE ReachedFrom(_, _)
ReachedFrom(G, S) ==
  LET next == S \cup {e[2] : e \in {e \in G : e[1] \in S}} IN
  IF next = S THEN S ELSE ReachedFrom(G, next)

Successors(G, n) == {e[2] : e \in {e \in G : e[1] = n}}

\* n lies on a directed cycle of G: it reaches itself.
OnCycle(G, n) == n \in ReachedFrom(G, Successors(G, n))

HasCycle(G) == \E e \in G : OnCycle(G, e[1])

LayoutCalled == called = "validateERDLayout"

\* C7: validateERDLayout returns exactly one CIRCULAR_DEPENDENCY error if
\* the foreign-key graph (self-references left out) holds a directed cycle,
\* and no error if it holds none; never more than one error.
C7_OneErrorIffCycle ==
  LayoutCalled =>
    IF HasCycle(FkGraph(diagram))
    THEN Len(errors) = 1 /\ errors[1].code = "CIRCULAR_DEPENDENCY"
    ELSE errors = <<>>

\* Two cycles through one model: one error.
C7_Witness ==
  /\ LayoutCalled
  /\ {<<ModelName(1), ModelName(2)>>, <<ModelName(2), ModelName(1)>>,
      <<ModelName(2), ModelName(3)>>, <<ModelName(3), ModelName(2)>>}
       \subseteq FkGraph(diagram)
  /\ Len(errors) = 1

\* C8: the model a CIRCULAR_DEPENDENCY error names lies itself on a
\* directed foreign-key cycle.
C8_NamedModelOnCycle ==
  (LayoutCalled /\ errors # <<>>) => OnCycle(FkGraph(diagram), errors[1].at[1])

\* ---------------------------------------------------------------------
\* Properties of validateFlowLayout (specification SpecFlowLayout)
\* ---------------------------------------------------------------------

FlowCalled == called = "validateFlowLayout"

FlowNodes(d) == d.nodes.entries
FlowNodeIds(d) == {n.id : n \in SeqToSet(FlowNodes(d))}
StartIds(d) == {n.id : n \in {o \in SeqToSet(FlowNodes(d)) : o.type = "start"}}

\* The graph of a flow: its nodes are the declared nodes, its edges the
\* declared edges that join two of them.
FlowGraph(d) ==
  {<<e.source, e.target>> :
     e \in {g \in SeqToSet(d.edges.entries) :
              g.source \in FlowNodeIds(d) /\ g.target \in FlowNodeIds(d)}}

\* The nodes a directed path leads to from a start node (the start nodes
\* among them).
ReachableFromStart(d) == ReachedFrom(FlowGraph(d), StartIds(d))

\* The ids the UNREACHABLE_NODE errors name, in order.
UnreachableNamed(es) ==
  LET picked == SelectSeq(es, LAMBDA e : e.code = "UNREACHABLE_NODE") IN
  [i \in 1..Len(picked) |-> picked[i].at[1]]

\* The ids of the non-start nodes no path from a start node reaches, in
\* document order.
UnreachableNodes(d) ==
  LET picked == SelectSeq(FlowNodes(d),
                          LAMBDA n : n.type # "start" /\ n.id \notin ReachableFromStart(d))
  IN [i \in 1..Len(picked) |-> picked[i].id]

\* C9: with at least one start node, validateFlowLayout emits exactly one
\* UNREACHABLE_NODE error for each non-start node that no directed path from
\* a start node reaches, and none for any other node; with no start node it
\* emits no UNREACHABLE_NODE error.
C9_UnreachableNodes ==
  FlowCalled =>
    UnreachableNamed(errors) =
      IF StartIds(diagram) = {} THEN <<>> ELSE UnreachableNodes(diagram)

\* The flow start -> a -> b with an orphan: one error, naming the orphan.
C9_Witness ==
  /\ FlowCalled
  /\ diagram = OrphanFlow
  /\ UnreachableNamed(errors) = <<"orphan">>

\* ---------------------------------------------------------------------
\* Properties of validateSequenceLayout (specification SpecSequenceLayout)
\* ---------------------------------------------------------------------

SequenceCalled == called = "validateSequenceLayout" /\ Truthy(diagram.messages)

Orders(d) == [i \in 1..Len(d.messages.entries) |-> d.messages.entries[i].sequence_order]

\* The i-th smallest sequence_order (i from 1), by counting.
SortedOrder(os, i) ==
  CHOOSE v \in SeqToSet(os) :
    /\ Cardinality({k \in 1..Len(os) : os[k] < v}) < i
    /\ Cardinality({k \in 1..Len(os) : os[k] <= v}) >= i

\* The 0-based positions whose sorted value is not the position plus one.
Misplaced(os) == {i \in 0..(Len(os) - 1) : SortedOrder(os, i + 1) # i + 1}

FirstMisplaced(os) == CHOOSE i \in Misplaced(os) : \A j \in Misplaced(os) : i <= j

OrderingErrors(es) == SelectSeq(es, LAMBDA e : e.what = "order")

\* C10: no ordering error exactly when the sorted values are 1, 2, ..., N;
\* otherwise exactly one, for the first 0-based position i whose value is
\* not i+1, naming the expected value i+1, the value found and i.
C10_OrderingError ==
  SequenceCalled =>
    LET os == Orders(diagram) IN
    IF Misplaced(os) = {} THEN OrderingErrors(errors) = <<>>
    ELSE /\ Len(OrderingErrors(errors)) = 1
         /\ OrderingErrors(errors)[1].code = "INVALID_SEQUENCE_ORDER"
         /\ OrderingErrors(errors)[1].at =
              <<FirstMisplaced(os) + 1,
                SortedOrder(os, FirstMisplaced(os) + 1),
                FirstMisplaced(os)>>

\* Orders 1, 2, 4 in some document order that is not sorted: expected 3,
\* found 4, at position 2.
C10_Witness ==
  /\ SequenceCalled
  /\ Orders(diagram) = <<4, 1, 2>>
  /\ OrderingErrors(errors) =
       <<createError("INVALID_SEQUENCE_ORDER", "order", <<3, 4, 2>>)>>

DuplicateErrors(es) == SelectSeq(es, LAMBDA e : e.what = "duplicate")

\* Two messages at different positions share a sequence_order.
SharedOrder(os) == \E i, j \in 1..Len(os) : i < j /\ os[i] = os[j]

\* C11: validateSequenceLayout emits exactly one duplicate-order error when
\* at least two messages share a sequence_order and none when all values
\* are distinct, whatever the ordering check emitted.
C11_DuplicateOrder ==
  SequenceCalled =>
    /\ Len(DuplicateErrors(errors)) = (IF SharedOrder(Orders(diagram)) THEN 1 ELSE 0)
    /\ \A i \in 1..Len(DuplicateErrors(errors)) :
         DuplicateErrors(errors)[i].code = "INVALID_SEQUENCE_ORDER"

\* Orders 1, 1, 2: the ordering error (expected 2, found 1, at position 1)
\* and the duplicate error besides.
C11_Witness ==
  /\ SequenceCalled
  /\ Orders(diagram) = <<1, 1, 2>>
  /\ errors = <<createError("INVALID_SEQUENCE_ORDER", "order", <<2, 1, 1>>),
                createError("INVALID_SEQUENCE_ORDER", "duplicate", <<>>)>>

\* C29: validateSequenceLayout returns at most two errors, and the
\* duplicate-order error never without an ordering error, for every list of
\* messages with numeric sequence_order.
C29_DuplicateNeverAlone ==
  SequenceCalled =>
    /\ Len(errors) <= 2
    /\ DuplicateErrors(errors) # <<>> => OrderingErrors(errors) # <<>>

\* Orders 2, 1, 2, a duplicate: the ordering error of position 2 (expected
\* 3, found 2) and the duplicate error, and no more.
C29_Witness ==
  /\ SequenceCalled
  /\ Orders(diagram) = <<2, 1, 2>>
  /\ Len(OrderingErrors(errors)) = 1
  /\ Len(DuplicateErrors(errors)) = 1
  /\ Len(errors) = 2

\* ---------------------------------------------------------------------
\* validateERDReferences called on its own (specification SpecERDReferences)
\* ---------------------------------------------------------------------

CallValidateERDReferences ==
  /\ called = ""
  /\ called' = "validateERDReferences"
  /\ errors' = validateERDReferences(diagram)
  /\ UNCHANGED <<diagram, restOfCall>>

\* At most MaxModels models, with or without fields.
InitERDReferences ==
  /\ OnlyCall
  /\ called = ""
  /\ errors = <<>>
  /\ \E ms \in ModelsValues(MaxModels) :
       diagram = Document(Str("erd"), Metadata(Str("Shop")), ms,
                          Undefined, Undefined, Undefined)

SpecERDReferences == InitERDReferences /\ [][CallValidateERDReferences]_vars

ReferencesCalled == called = "validateERDReferences" /\ HasModels(diagram)

\* The codes of the errors at one field, in order.
CodesAt(es, modelName, fieldName) ==
  LET picked == SelectSeq(es, LAMBDA e : e.at = <<modelName, fieldName>>) IN
  [i \in 1..Len(picked) |-> picked[i].code]

\* The names of the fields a model declares.
DeclaredFields(model) ==
  IF HasFields(model) THEN {f.name : f \in SeqToSet(Fields(model))} ELSE {}

\* The reference error the field owes: none without a foreign key, the
\* table error when the table names no model, the column error when the
\* table is a model with fields and none of them has the column's name.
ExpectedReferenceCodes(d, field) ==
  IF field.foreign_key.kind # "object" THEN <<>>
  ELSE IF \A m \in SeqToSet(Models(d)) : m.name # field.foreign_key.table
  THEN <<"FK_TABLE_NOT_FOUND">>
  ELSE IF \E m \in SeqToSet(Models(d)) :
            /\ m.name = field.foreign_key.table
            /\ HasFields(m)
            /\ field.foreign_key.column \notin DeclaredFields(m)
  THEN <<"FK_COLUMN_NOT_FOUND">>
  ELSE <<>>

\* C12: for each field with a foreign key, validateERDReferences emits
\* FK_TABLE_NOT_FOUND alone when the table names no model, FK_COLUMN_NOT_FOUND
\* exactly when the table is a model and the column names none of its
\* fields, and nothing when both resolve.
C12_ReferenceResolution ==
  ReferencesCalled =>
    \A m \in SeqToSet(Models(diagram)) :
      HasFields(m) =>
        \A f \in SeqToSet(Fields(m)) :
          CodesAt(errors, m.name, f.name) = ExpectedReferenceCodes(diagram, f)

\* ---------------------------------------------------------------------
\* The ERD parsers called on a document (specification SpecERDParse)
\* ---------------------------------------------------------------------

\* A field as the snake_case shape writes it, and as the camelCase shape
\* writes it: `a' holds what the field says.
SnakeField(name, a) ==
  [kind |-> "object", name |-> name, field_type |-> a.type,
   primary_key |-> a.isId, unique |-> a.isUnique, not_null |-> a.isRequired,
   is_list |-> a.isList, default_value |-> a.default, foreign_key |-> a.foreignKey,
   virtual |-> a.virtual, relation_name |-> a.relationName]

CamelField(name, a) ==
  [kind |-> "object", name |-> name, type |-> a.type,
   primaryKey |-> a.isId, unique |-> a.isUnique, notNull |-> a.isRequired,
   list |-> a.isList, default |-> a.default, foreignKey |-> a.foreignKey,
   virtual |-> a.virtual, relationName |-> a.relationName]

ShapedField(shape, name, a) ==
  IF shape = "snake" THEN SnakeField(name, a) ELSE CamelField(name, a)

Shapes == {"snake", "camel"}

Flag == {Undefined, Bool(TRUE)}

\* What one field can say, every attribute present or absent.
FieldAttributes ==
  [type : {Str("Int"), Str("String")}, isId : Flag, isUnique : Flag, isRequired : Flag,
   isList : Flag, default : {Undefined, Str(""), Str("now()")},
   foreignKey : {Undefined, ForeignKey(ModelName(1), IdField), ForeignKey("", IdField)},
   virtual : Flag, relationName : {Undefined, Str("Posts")}]

\* What a relation field can say: a type that is a model or not, virtual or
\* not, one of two relation names or none, a foreign key or none.
RelationAttributes(n) ==
  [type : {Str("String")} \cup {Str(ModelName(i)) : i \in 1..n},
   isId : {Undefined}, isUnique : {Undefined}, isRequired : {Undefined},
   isList : {Undefined}, default : {Undefined},
   foreignKey : {Undefined, ForeignKey(ModelName(1), IdField)},
   virtual : Flag, relationName : {Undefined, Str("Posts"), Str("Likes")}]

ErdYaml(models) ==
  Document(Undefined, Metadata(Str("Blog")), Obj(models), Undefined, Undefined, Undefined)

\* The document of one model with the one field `a', in a shape.
OneFieldDocument(shape, a) ==
  ErdYaml(<<Model(ModelName(1), Obj(<<ShapedField(shape, RefField, a)>>), Undefined)>>)

\* The document of the models M1.., each with the one field as[i].
RelationDocument(shape, as) ==
  ErdYaml([i \in 1..Len(as) |->
             Model(ModelName(i), Obj(<<ShapedField(shape, RefField, as[i])>>), Undefined)])

\* The .prisma text of the models M1.., each with the one line ls[i].
PrismaText(ls) ==
  [kind |-> "prisma",
   models |-> [i \in 1..Len(ls) |->
                 [name |-> ModelName(i),
                  lines |-> <<[name |-> RefField, type |-> ls[i].type,
                               relation |-> ls[i].relation, fields |-> ls[i].fields]>>]]]

PrismaLines(n) ==
  [type : {"String"} \cup {ModelName(i) : i \in 1..n},
   relation : {Undefined, Str("Posts"), Str("Likes")}, fields : BOOLEAN]

LogEntry(parser, content, model) ==
  [parser |-> parser, content |-> content, model |-> model]

\* The parser called by name.
CallParser(parser, content) ==
  CASE parser = "parseYamlSchemaSnake" -> parseYamlSchemaSnake(content)
    [] parser = "parseYamlSchemaCamel" -> parseYamlSchemaCamel(content)
    [] parser = "parsePrismaSchema" -> parsePrismaSchema(content)

ParseWith(parser, content) ==
  parseLog' = Append(parseLog, LogEntry(parser, content, CallParser(parser, content)))

\* One call of a YAML parser: on a document of one field, on a document of
\* MaxLinked models with a relation field each, or on a text that is no ERD.
CallYamlParser(parser) ==
  /\ parseLog = <<>>
  /\ \/ \E shape \in Shapes, a \in FieldAttributes :
          ParseWith(parser, OneFieldDocument(shape, a))
     \/ \E shape \in Shapes, as \in [1..MaxLinked -> RelationAttributes(MaxLinked)] :
          ParseWith(parser, RelationDocument(shape, as))
     \/ \E content \in {Malformed, NullValue, Str("just text"), OrphanFlow} :
          ParseWith(parser, content)
  /\ UNCHANGED restOfParse

CallParseYamlSchemaSnake == CallYamlParser("parseYamlSchemaSnake")

CallParseYamlSchemaCamel == CallYamlParser("parseYamlSchemaCamel")

CallParsePrismaSchema ==
  /\ parseLog = <<>>
  /\ \E ls \in [1..MaxLinked -> PrismaLines(MaxLinked)] :
       ParseWith("parsePrismaSchema", PrismaText(ls))
  /\ UNCHANGED restOfParse

InitERDParse == OnlyParse /\ NoParse

NextERDParse ==
  \/ CallParseYamlSchemaSnake
  \/ CallParseYamlSchemaCamel
  \/ CallParsePrismaSchema

SpecERDParse == InitERDParse /\ [][NextERDParse]_vars

\* --- what a document says, read from the document ---------------------

\* The document holds models: a .prisma text, or a YAML object with models.
HoldsModels(content) ==
  content.kind = "prisma" \/ (content.kind = "object" /\ Truthy(content.models))

\* The models of a document with their fields, whatever the kind.
WrittenModels(content) ==
  IF content.kind = "prisma"
  THEN [i \in 1..Len(content.models) |->
          [name |-> content.models[i].name, fields |-> content.models[i].lines]]
  ELSE [i \in 1..Len(Models(content)) |->
          [name |-> Models(content)[i].name, fields |-> Fields(Models(content)[i])]]

\* The shape a document is written in.
ShapeOf(content) ==
  IF content.kind = "prisma" THEN "prisma"
  ELSE IF \E m \in SeqToSet(WrittenModels(content)) :
            \E f \in SeqToSet(m.fields) : "field_type" \in DOMAIN f
  THEN "snake" ELSE "camel"

\* The shape a parser reads.
ShapeRead(parser) ==
  CASE parser = "parseYamlSchemaSnake" -> "snake"
    [] parser = "parseYamlSchemaCamel" -> "camel"
    [] parser = "parsePrismaSchema" -> "prisma"

\* The relation name a field of a document carries.
CarriedRelation(content, field) ==
  IF content.kind = "prisma" THEN field.relation
  ELSE IF "relation_name" \in DOMAIN field THEN field.relation_name
  ELSE field.relationName

\* The (model, field) pairs of a document that carry relation r.
Carriers(content, r) ==
  UNION {{<<m.name, f.name>> :
            f \in {g \in SeqToSet(m.fields) : CarriedRelation(content, g) = r}} :
         m \in SeqToSet(WrittenModels(content))}

RelationNames == {Str("Posts"), Str("Likes")}

\* relationToModel of the field `at' (model, field) of a parsed schema.
RelationToModelAt(schema, at) ==
  LET model == schema.models[FindModel(schema.models, at[1])] IN
  model.fields[FindField(model.fields, at[2])].relationToModel

\* C13: after ERD parsing, for every relation name carried by exactly two
\* fields of two different models, each of the two fields has relationToModel
\* equal to the name of the model that owns the other field.
C13_RelationLinking ==
  \A k \in 1..Len(parseLog) :
    LET call == parseLog[k] IN
    (/\ HoldsModels(call.content)
     /\ ShapeOf(call.content) = ShapeRead(call.parser)
     /\ call.model.kind = "schema")
    => \A r \in RelationNames :
         \A c, d \in Carriers(call.content, r) :
           (Cardinality(Carriers(call.content, r)) = 2 /\ c[1] # d[1])
           => RelationToModelAt(call.model, c) = Str(d[1])

\* What a field of a YAML document says, read from its shape.
SaidBy(field) ==
  IF "field_type" \in DOMAIN field
  THEN [type |-> field.field_type, isId |-> field.primary_key, isUnique |-> field.unique,
        isRequired |-> field.not_null, isList |-> field.is_list,
        default |-> field.default_value, foreignKey |-> field.foreign_key,
        virtual |-> field.virtual, relationName |-> field.relation_name]
  ELSE [type |-> field.type, isId |-> field.primaryKey, isUnique |-> field.unique,
        isRequired |-> field.notNull, isList |-> field.list,
        default |-> field.default, foreignKey |-> field.foreignKey,
        virtual |-> field.virtual, relationName |-> field.relationName]

\* The same document with every field written in `shape'.
Written(content, shape) ==
  ErdYaml([i \in 1..Len(Models(content)) |->
             Model(Models(content)[i].name,
                   Obj([j \in 1..Len(Fields(Models(content)[i])) |->
                          ShapedField(shape, Fields(Models(content)[i])[j].name,
                                      SaidBy(Fields(Models(content)[i])[j]))]),
                   Undefined)])

YamlParsers == {"parseYamlSchemaSnake", "parseYamlSchemaCamel"}

\* C14: the ERD YAML parser yields the same canonical fields for a document
\* written in the snake_case shape and for the same document written in the
\* camelCase shape.
C14_ShapesNormalized ==
  \A k \in 1..Len(parseLog) :
    LET call == parseLog[k] IN
    (call.parser \in YamlParsers /\ HoldsModels(call.content))
    => /\ call.model = CallParser(call.parser, Written(call.content, "snake"))
       /\ call.model = CallParser(call.parser, Written(call.content, "camel"))

\* ---------------------------------------------------------------------
\* webview/App.tsx : the effect that loads the YAML of the initial data
\* (specification SpecWebview)
\* ---------------------------------------------------------------------

\* String(v) of a string or of undefined
StringOf(v) == IF v.kind = "string" THEN v.value ELSE v.kind

\* parsers/flowParser.ts : parseFlowYaml.  The nodes of these documents are
\* a list, so that Object.entries names them "0", "1", ...
parseFlowYaml(content) ==
  IF yamlParseThrows(content) THEN ParseError
  ELSE LET p == yamlParse(content) IN
       IF p.kind = "null" THEN ParseError
       ELSE IF Get(p, "diagram_type") # Str("flow") THEN ParseError
       ELSE IF ~Truthy(Get(p, "metadata")) \/ ~Truthy(Get(Get(p, "metadata"), "name"))
       THEN ParseError
       ELSE IF ~Truthy(Get(p, "nodes")) THEN ParseError
       ELSE [kind |-> "flow",
             nodes |-> [i \in 1..Len(p.nodes.entries) |-> ToString(i - 1)],
             edges |-> IF ~Truthy(Get(p, "edges")) THEN <<>>
                       ELSE [i \in 1..Len(p.edges.entries) |->
                               [from |-> StringOf(Get(p.edges.entries[i], "from")),
                                to |-> StringOf(Get(p.edges.entries[i], "to"))]]]

\* parsers/sequenceParser.ts : parseSequenceYaml
parseSequenceYaml(content) ==
  IF yamlParseThrows(content) THEN ParseError
  ELSE LET p == yamlParse(content) IN
       IF p.kind = "null" THEN ParseError
       ELSE IF Get(p, "diagram_type") # Str("sequence") THEN ParseError
       ELSE IF ~Truthy(Get(p, "metadata")) \/ ~Truthy(Get(Get(p, "metadata"), "name"))
       THEN ParseError
       ELSE IF ~Truthy(Get(p, "participants")) THEN ParseError
       ELSE [kind |-> "sequence"]

\* prismaParser.ts : the nodes and the edges convertPrismaToFlowChart and
\* convertPrismaToFlowChartSync build, one node a model and one edge a
\* field whose relationToModel is another model of the schema
PrismaNodes(schema) == [i \in 1..Len(schema.models) |-> schema.models[i].name]

PrismaEdges(schema) ==
  Flatten([i \in 1..Len(schema.models) |->
    Flatten([j \in 1..Len(schema.models[i].fields) |->
      LET field == schema.models[i].fields[j] IN
      IF /\ Truthy(field.relationToModel)
         /\ field.relationToModel.value # schema.models[i].name
         /\ FindModel(schema.models, field.relationToModel.value) # 0
      THEN <<[source |-> schema.models[i].name, target |-> field.relationToModel.value]>>
      ELSE <<>>])])

\* What the converter of a parsed diagram resolves with.
ConvertedNodes(schema) ==
  CASE schema.kind = "schema" -> PrismaNodes(schema)
    [] schema.kind = "flow" -> schema.nodes
    [] schema.kind = "sequence" -> <<"sequence-root">>

ConvertedEdges(schema) ==
  CASE schema.kind = "schema" -> PrismaEdges(schema)
    [] schema.kind = "flow" ->
         [i \in 1..Len(schema.edges) |->
            [source |-> schema.edges[i].from, target |-> schema.edges[i].to]]
    [] schema.kind = "sequence" -> <<>>

\* parsed.diagram_type || 'erd' throws a TypeError on null
DiagramTypeOrErd(p) ==
  IF Truthy(Get(p, "diagram_type")) THEN Get(p, "diagram_type").value ELSE "erd"

\* The parser the effect calls for a diagram type; none for another type.
ParserOf(dt, content) ==
  CASE dt = "erd" -> parseYamlSchemaSnake(content)
    [] dt = "flow" -> parseFlowYaml(content)
    [] dt = "sequence" -> parseSequenceYaml(content)
    [] OTHER -> ParseError

\* useEffect(() => { ... if (initialData.yamlSchema) { try { ... } } }, []) up
\* to the call of the converter: an exception is caught and logged
LoadInitialData ==
  /\ effect = "mount"
  /\ IF yamlParseThrows(initialData) \/ yamlParse(initialData).kind = "null"
     THEN effect' = "failed" /\ UNCHANGED <<currentSchemaRef, diagramKind>>
     ELSE LET dt == DiagramTypeOrErd(yamlParse(initialData))
              schema == ParserOf(dt, initialData)
          IN IF dt \notin {"erd", "flow", "sequence"}
             THEN effect' = "ignored" /\ UNCHANGED <<currentSchemaRef, diagramKind>>
             ELSE IF schema.kind = "error"
             THEN effect' = "failed" /\ UNCHANGED <<currentSchemaRef, diagramKind>>
             ELSE /\ effect' = "converting"
                  /\ currentSchemaRef' = schema
                  /\ diagramKind' = Str(dt)
  /\ UNCHANGED <<initialData, nodes, edges>>
  /\ UNCHANGED restOfWebview

\* .then(({ nodes, edges }) => { setNodes(nodes); setEdges(edges); ... })
ConversionResolved ==
  /\ effect = "converting"
  /\ nodes' = ConvertedNodes(currentSchemaRef)
  /\ edges' = ConvertedEdges(currentSchemaRef)
  /\ effect' = "rendered"
  /\ UNCHANGED <<initialData, currentSchemaRef, diagramKind>>
  /\ UNCHANGED restOfWebview

\* .catch(...): the layout failed.  An ERD is laid out again by
\* convertPrismaToFlowChartSync and installed; a flow or a sequence is not.
ConversionRejected ==
  /\ effect = "converting"
  /\ IF diagramKind = Str("erd")
     THEN /\ nodes' = PrismaNodes(currentSchemaRef)
          /\ edges' = PrismaEdges(currentSchemaRef)
          /\ effect' = "rendered"
     ELSE /\ effect' = "layoutFailed"
          /\ UNCHANGED <<nodes, edges>>
  /\ UNCHANGED <<initialData, currentSchemaRef, diagramKind>>
  /\ UNCHANGED restOfWebview

\* A sequence document with participants
LoginSequence ==
  [k \in DOMAIN GappedSequence \cup {"participants"} |->
     IF k = "participants" THEN Obj(<<[kind |-> "object", id |-> "user"]>>)
     ELSE GappedSequence[k]]

InitWebview ==
  /\ initialData \in YamlContents(MaxModels) \cup {LoginSequence}
  /\ effect = "mount"
  /\ currentSchemaRef = NullValue
  /\ diagramKind = NullValue
  /\ nodes = initialNodes
  /\ edges = initialEdges
  /\ OnlyWebview

NextWebview ==
  \/ LoadInitialData
  \/ ConversionResolved
  \/ ConversionRejected

SpecWebview == InitWebview /\ [][NextWebview]_vars

\* What validate returns for a document, all its phases in one formula.
ValidationOf(content) ==
  IF yamlParseThrows(content) THEN CatchResult
  ELSE LET p == yamlParse(content) IN
       IF ~Truthy(p) \/ ~TypeofObject(p) THEN EmptyResult
       ELSE IF detectDiagramTypeThrows(p) THEN CatchResult
       ELSE LET dt == detectDiagramType(p) IN
            IF validateStructureThrows(p, dt) THEN CatchResult
            ELSE IF Len(validateStructure(p, dt)) > 0
            THEN aggregateResults(validateStructure(p, dt), <<>>, dt)
            ELSE aggregateResults(validateReferences(p, dt) \o validateLayout(p, dt),
                                  validateBestPractices(p, dt), dt)

\* validate is ValidationOf, step by step.
ValidateIsValidationOf == Done => result = ValidationOf(yamlContent)

\* The structure phase or the reference phase of validate reports an error
\* for the document, or validate cannot read it at all.
StructuralOrReferenceError(content) ==
  IF yamlParseThrows(content) THEN TRUE
  ELSE LET p == yamlParse(content) IN
       IF ~Truthy(p) \/ ~TypeofObject(p) THEN TRUE
       ELSE IF detectDiagramTypeThrows(p) THEN TRUE
       ELSE LET dt == detectDiagramType(p) IN
            \/ validateStructureThrows(p, dt)
            \/ Len(validateStructure(p, dt)) > 0
            \/ Len(validateReferences(p, dt)) > 0

Rendered == effect = "rendered"

\* C15 (first half): the webview installs no nodes and edges from a
\* document for which validation reports a structural or a reference error.
C15_NoRenderOnError == Rendered => ~StructuralOrReferenceError(initialData)

\* C15 (second half): a document with best-practice warnings only is parsed
\* and, unless its layout fails, rendered.
C15_WarningsRendered ==
  (/\ effect \notin {"mount", "layoutFailed"}
   /\ ValidationOf(initialData).isValid)
  => effect \in {"converting", "rendered"}

\* C15: the webview never installs nodes and edges from a YAML document for
\* which validation reports a structural or a reference error, and a
\* document that has only warnings is parsed and rendered.
C15_RenderOnlyValidated == C15_NoRenderOnError /\ C15_WarningsRendered

\* The document of one model whose foreign key names a table that does not
\* exist is rendered.
DanglingReference ==
  Document(Str("erd"), Metadata(Str("Shop")),
           Obj(<<Model(ModelName(1),
                       Obj(<<Field(IdField, TRUE, Undefined),
                             Field(RefField, FALSE, ForeignKey(Ghost, IdField))>>),
                       Undefined)>>),
           Undefined, Undefined, Undefined)

C15_DanglingNotRendered == ~(initialData = DanglingReference /\ Rendered)

\* ---------------------------------------------------------------------
\* DiagramValidator.validate called twice, the calls interleaving at their
\* await points (specification SpecConcurrent).  JavaScript runs a call
\* from one await to the next without interruption.
\* ---------------------------------------------------------------------

Calls == {1, 2}

\* The frame that holds the constants of call i: its own.
SharedFrame(i) == 1
OwnFrame(i) == i

\* const parsed, diagramType, structureErrors, referenceErrors,
\* layoutErrors, warnings of a call, before they are assigned; `thrown'
\* says that the promise awaited was rejected.
EmptyFrame ==
  [parsed |-> Undefined, diagramType |-> "", structureErrors |-> <<>>,
   referenceErrors |-> <<>>, layoutErrors |-> <<>>, warnings |-> <<>>,
   thrown |-> FALSE]

\* The step of call i is taken: it writes its frame, moves to `to' or
\* returns `r'.
StepTo(i, to, frame) ==
  /\ calls' = [calls EXCEPT ![i].pc = to]
  /\ frames' = [frames EXCEPT ![OwnFrame(i)] = frame]
  /\ schedule' = Append(schedule, i)
  /\ UNCHANGED restOfConcurrent

ReturnFrom(i, r) ==
  /\ calls' = [calls EXCEPT ![i].pc = "done", ![i].result = r]
  /\ UNCHANGED frames
  /\ schedule' = Append(schedule, i)
  /\ UNCHANGED restOfConcurrent

\* validate up to its first await: yaml.parse, detectDiagramType and the
\* call of validateStructure
Begin(i) ==
  /\ calls[i].pc = "begin"
  /\ LET content == calls[i].yamlContent
         f == frames[OwnFrame(i)]
     IN IF yamlParseThrows(content) THEN ReturnFrom(i, CatchResult)
        ELSE IF ~Truthy(yamlParse(content)) \/ ~TypeofObject(yamlParse(content))
        THEN ReturnFrom(i, EmptyResult)
        ELSE IF detectDiagramTypeThrows(yamlParse(content))
        THEN ReturnFrom(i, CatchResult)
        ELSE LET p == yamlParse(content)
                 dt == detectDiagramType(p)
             IN IF validateStructureThrows(p, dt)
                THEN StepTo(i, "structure",
                            [f EXCEPT !.parsed = p, !.diagramType = dt, !.thrown = TRUE])
                ELSE StepTo(i, "structure",
                            [f EXCEPT !.parsed = p, !.diagramType = dt,
                                      !.structureErrors = validateStructure(p, dt)])

\* from the await of validateStructure to the await of validateReferences
AfterStructure(i) ==
  /\ calls[i].pc = "structure"
  /\ LET f == frames[OwnFrame(i)] IN
     IF f.thrown THEN ReturnFrom(i, CatchResult)
     ELSE IF Len(f.structureErrors) > 0
     THEN ReturnFrom(i, aggregateResults(f.structureErrors, <<>>, f.diagramType))
     ELSE StepTo(i, "references",
                 [f EXCEPT !.referenceErrors = validateReferences(f.parsed, f.diagramType)])

\* from the await of validateReferences to the await of validateLayout
AfterReferences(i) ==
  /\ calls[i].pc = "references"
  /\ LET f == frames[OwnFrame(i)] IN
     StepTo(i, "layout",
            [f EXCEPT !.layoutErrors = validateLayout(f.parsed, f.diagramType)])

\* from the await of validateLayout to the await of validateBestPractices
AfterLayout(i) ==
  /\ calls[i].pc = "layout"
  /\ LET f == frames[OwnFrame(i)] IN
     StepTo(i, "bestPractices",
            [f EXCEPT !.warnings = validateBestPractices(f.parsed, f.diagramType)])

\* from the await of validateBestPractices to the return
AfterBestPractices(i) ==
  /\ calls[i].pc = "bestPractices"
  /\ LET f == frames[OwnFrame(i)] IN
     ReturnFrom(i, aggregateResults(f.structureErrors \o f.referenceErrors \o f.layoutErrors,
                                    f.warnings, f.diagramType))

\* The documents of the two calls: two models, each with a key and a
\* reference to a model, to a table that does not exist, or to nothing;
\* and documents that validate gives up on early.
ReferenceValues ==
  {NullValue, ForeignKey(ModelName(1), IdField), ForeignKey(ModelName(2), IdField),
   ForeignKey(Ghost, IdField)}

ConcurrentContents ==
  {Malformed, NullValue}
  \cup {Document(Str("erd"), Metadata(Undefined), Undefined, Undefined, Undefined, Undefined)}
  \cup {Document(Str("erd"), Metadata(Str("Shop")),
                 Obj([i \in 1..Len(fks) |->
                        Model(ModelName(i),
                              Obj(<<Field(IdField, TRUE, Undefined),
                                    Field(RefField, FALSE, fks[i])>>),
                              Undefined)]),
                 Undefined, Undefined, Undefined) :
          fks \in [1..MaxModels -> ReferenceValues]}

InitConcurrent ==
  /\ calls \in [Calls -> [yamlContent : ConcurrentContents, pc : {"begin"},
                          result : {Undefined}]]
  /\ frames = [i \in Calls |-> EmptyFrame]
  /\ schedule = <<>>
  /\ OnlyConcurrent

NextConcurrent ==
  \/ \E i \in Calls : Begin(i)
  \/ \E i \in Calls : AfterStructure(i)
  \/ \E i \in Calls : AfterReferences(i)
  \/ \E i \in Calls : AfterLayout(i)
  \/ \E i \in Calls : AfterBestPractices(i)

SpecConcurrent == InitConcurrent /\ [][NextConcurrent]_vars

\* C16: a validate call returns what it returns when it runs alone,
\* whatever another call on another document does between its awaits.
C16_CallsIndependent ==
  \A i \in Calls :
    calls[i].pc = "done" => calls[i].result = ValidationOf(calls[i].yamlContent)

\* Two calls whose steps alternated and that are both done: one on a
\* document with a circular dependency, one on a document without.
C16_Witness ==
  /\ \A i \in Calls : calls[i].pc = "done"
  /\ Len(schedule) >= 8
  /\ \A k \in 1..7 : schedule[k] # schedule[k + 1]
  /\ "CIRCULAR_DEPENDENCY" \in Codes(calls[1].result.errors)
  /\ calls[2].result.isValid

\* ---------------------------------------------------------------------
\* validateERDStructure called on its own (specification SpecERDStructure)
\* ---------------------------------------------------------------------

CallValidateERDStructure ==
  /\ called = ""
  /\ IF validateERDStructureThrows(diagram)
     THEN called' = "validateERDStructure threw" /\ errors' = <<>>
     ELSE called' = "validateERDStructure" /\ errors' = validateERDStructure(diagram)
  /\ UNCHANGED <<diagram, restOfCall>>

Index(index_name, columns) ==
  [kind |-> "object", index_name |-> index_name, columns |-> columns]

\* indexes of a model: the key missing, a scalar, or a list of one index
\* that is a scalar or an object with or without index_name and columns
IndexesValues ==
  {Undefined, Str("by_id")}
  \cup {Arr(<<Str("id")>>)}
  \cup {Arr(<<Index(n, c)>>) :
          n \in {Undefined, Str("by_id")}, c \in {Undefined, Arr(<<IdField>>)}}

\* fields of a model: the key missing, an id field, an id field without
\* its field_type
StructureFieldsValues ==
  {Undefined,
   Obj(<<Field(IdField, TRUE, Undefined)>>),
   Obj(<<[Field(IdField, TRUE, Undefined) EXCEPT !.field_type = Undefined]>>)}

StructureModelsValues(n) ==
  {Undefined}
  \cup {Obj([i \in 1..Len(ms) |-> Model(ModelName(i), ms[i][1], ms[i][2])]) :
          ms \in SeqsUpTo(StructureFieldsValues \X IndexesValues, n)}

InitERDStructure ==
  /\ OnlyCall
  /\ called = ""
  /\ errors = <<>>
  /\ \E ms \in StructureModelsValues(MaxModels) :
       diagram = Document(Str("erd"), Metadata(Str("Shop")), ms,
                          Undefined, Undefined, Undefined)

SpecERDStructure == InitERDStructure /\ [][CallValidateERDStructure]_vars

StructureCalled == called = "validateERDStructure" /\ HasModels(diagram)

\* An error is reported for `what' at the place `at'.
ReportedAt(what, at) == \E e \in SeqToSet(errors) : e.what = what /\ e.at = at

\* The index k of the model is malformed: no object, or an object without
\* an index_name string or without a columns list.
MalformedIndex(model, k) ==
  LET index == model.indexes.entries[k] IN
  \/ ~Truthy(index) \/ ~TypeofObject(index)
  \/ ~TypeofString(Get(index, "index_name"))
  \/ ~IsArray(Get(index, "columns"))

\* Every structural violation of the model is reported: the fields object
\* missing, a field without its type, indexes that is no list, a malformed
\* index.
ModelViolationsReported(model) ==
  /\ ~HasFields(model) => ReportedAt("fields", <<model.name>>)
  /\ HasFields(model) =>
       \A f \in SeqToSet(Fields(model)) :
         ~Truthy(f.field_type) => ReportedAt("field_type", <<model.name, f.name>>)
  /\ (model.indexes # Undefined /\ ~IsArray(model.indexes)) =>
       ReportedAt("indexes", <<model.name>>)
  /\ IsArray(model.indexes) =>
       \A k \in 1..Len(model.indexes.entries) :
         MalformedIndex(model, k) =>
           \E e \in SeqToSet(errors) : e.at = <<model.name, ToString(k - 1)>>

\* C18: validateERDStructure reports every structural violation of the
\* document in one pass; a malformed index of a model that also lacks
\* fields is still reported.
C18_EveryViolationReported ==
  StructureCalled =>
    \A m \in SeqToSet(Models(diagram)) : ModelViolationsReported(m)

\* The same, of the models that have their fields object.
C18_ReportedWhenFieldsPresent ==
  StructureCalled =>
    \A m \in SeqToSet(Models(diagram)) : HasFields(m) => ModelViolationsReported(m)

\* ---------------------------------------------------------------------
\* validators/structureValidator.ts : validateFlowStructure, called on its
\* own (specification SpecFlowStructure).  Here every key of a node and of
\* an edge is a value, present or not.
\* ---------------------------------------------------------------------

Num(n) == [kind |-> "number", value |-> n]
TypeofNumber(v) == v.kind = "number"

\* validTypes of validateFlowStructure
validNodeTypes ==
  {"start", "end", "process", "decision", "data", "database", "document", "fork", "join"}

\* The node is an object (the others are skipped by `continue').
IsObjectNode(node) == Truthy(node) /\ TypeofObject(node)

\* nodeIds when the loop reaches node i: the ids added by the nodes before
NodeIdsBefore(ns, i) ==
  {Get(ns[k], "id").value :
     k \in {o \in 1..(i - 1) :
              /\ IsObjectNode(ns[o])
              /\ Truthy(Get(ns[o], "id"))
              /\ TypeofString(Get(ns[o], "id"))}}

\* The checks of the position of node i
PositionStructureErrors(i, position) ==
  IF ~Truthy(position) \/ ~TypeofObject(position)
  THEN <<createError("MISSING_METADATA", "position", <<ToString(i - 1)>>)>>
  ELSE (IF ~TypeofNumber(Get(position, "x"))
        THEN <<createError("MISSING_METADATA", "position.x", <<ToString(i - 1)>>)>>
        ELSE <<>>)
       \o
       (IF ~TypeofNumber(Get(position, "y"))
        THEN <<createError("MISSING_METADATA", "position.y", <<ToString(i - 1)>>)>>
        ELSE <<>>)

\* The body of the loop over the nodes, for node i
NodeStructureErrors(ns, i) ==
  LET node == ns[i] IN
  IF ~IsObjectNode(node)
  THEN <<createError("MISSING_METADATA", "node", <<ToString(i - 1)>>)>>
  ELSE (IF ~Truthy(Get(node, "id")) \/ ~TypeofString(Get(node, "id"))
        THEN <<createError("MISSING_METADATA", "id", <<ToString(i - 1)>>)>>
        ELSE IF Get(node, "id").value \in NodeIdsBefore(ns, i)
        THEN <<createError("DUPLICATE_NODE_ID", "id", <<ToString(i - 1)>>)>>
        ELSE <<>>)
       \o
       (IF \/ ~Truthy(Get(node, "type"))
           \/ ~TypeofString(Get(node, "type"))
           \/ Get(node, "type").value \notin validNodeTypes
        THEN <<createError("MISSING_METADATA", "type", <<ToString(i - 1)>>)>>
        ELSE <<>>)
       \o
       (IF ~Truthy(Get(node, "label")) \/ ~TypeofString(Get(node, "label"))
        THEN <<createError("MISSING_METADATA", "label", <<ToString(i - 1)>>)>>
        ELSE <<>>)
       \o PositionStructureErrors(i, Get(node, "position"))

\* startNodeCount after the loop
startNodeCount(ns) ==
  Cardinality({i \in 1..Len(ns) :
                 IsObjectNode(ns[i]) /\ Get(ns[i], "type") = Str("start")})

\* StartNodeErrors with several start nodes let through
StartNodeErrorsMultipleAllowed(count) ==
  IF count = 0 THEN <<createError("NO_START_NODE", "nodes", <<>>)>>
  ELSE <<>>

\* The checks of startNodeCount
StartNodeErrors(count) ==
  IF count = 0 THEN <<createError("NO_START_NODE", "nodes", <<>>)>>
  ELSE IF count > 1 THEN <<createError("MULTIPLE_START_NODES", "nodes", <<>>)>>
  ELSE <<>>

\* edgeIds when the loop reaches edge i
EdgeIdsBefore(flowEdges, i) ==
  {Get(flowEdges[k], "id").value :
     k \in {o \in 1..(i - 1) :
              /\ IsObjectNode(flowEdges[o])
              /\ Truthy(Get(flowEdges[o], "id"))
              /\ TypeofString(Get(flowEdges[o], "id"))}}

\* The body of the loop over the edges, for edge i
EdgeStructureErrors(flowEdges, i) ==
  LET edge == flowEdges[i] IN
  IF ~IsObjectNode(edge)
  THEN <<createError("MISSING_METADATA", "edge", <<ToString(i - 1)>>)>>
  ELSE (IF ~Truthy(Get(edge, "id")) \/ ~TypeofString(Get(edge, "id"))
        THEN <<createError("MISSING_METADATA", "edge.id", <<ToString(i - 1)>>)>>
        ELSE IF Get(edge, "id").value \in EdgeIdsBefore(flowEdges, i)
        THEN <<createError("DUPLICATE_EDGE_ID", "edge.id", <<ToString(i - 1)>>)>>
        ELSE <<>>)
       \o
       (IF ~Truthy(Get(edge, "source")) \/ ~TypeofString(Get(edge, "source"))
        THEN <<createError("MISSING_METADATA", "edge.source", <<ToString(i - 1)>>)>>
        ELSE <<>>)
       \o
       (IF ~Truthy(Get(edge, "target")) \/ ~TypeofString(Get(edge, "target"))
        THEN <<createError("MISSING_METADATA", "edge.target", <<ToString(i - 1)>>)>>
        ELSE <<>>)

validateFlowStructure(d) ==
  (IF ~Truthy(d.nodes) \/ ~IsArray(d.nodes)
   THEN <<createError("MISSING_METADATA", "nodes", <<>>)>>
   ELSE Flatten([i \in 1..Len(d.nodes.entries) |-> NodeStructureErrors(d.nodes.entries, i)])
        \o StartNodeErrors(startNodeCount(d.nodes.entries)))
  \o
  (IF ~Truthy(d.edges) \/ ~IsArray(d.edges)
   THEN <<createError("MISSING_METADATA", "edges", <<>>)>>
   ELSE Flatten([i \in 1..Len(d.edges.entries) |-> EdgeStructureErrors(d.edges.entries, i)]))

CallValidateFlowStructure ==
  /\ called = ""
  /\ called' = "validateFlowStructure"
  /\ errors' = validateFlowStructure(diagram)
  /\ UNCHANGED <<diagram, restOfCall>>

FlowNode(id, type, label, position) ==
  [kind |-> "object", id |-> id, type |-> type, label |-> label, position |-> position]

FlowEdge(id, source, target) ==
  [kind |-> "object", id |-> id, source |-> source, target |-> target]

Position(x, y) == [kind |-> "object", x |-> x, y |-> y]

\* The node types the README documents
DocumentedNodeTypes == {"start", "end", "process", "decision", "note"}

\* A node: a scalar, or an object with one of two ids, a documented type,
\* a label or none, a position or none
FlowNodeValues ==
  {Str("node")}
  \cup {FlowNode(Str(id), Str(t), l, p) :
          id \in {"a", "b"}, t \in DocumentedNodeTypes,
          l \in {Undefined, Str("Go")}, p \in {Undefined, Position(Num(0), Num(0))}}

\* edges: the key missing, no edge, an edge, an edge without its ends
FlowEdgesValues ==
  {Undefined, Arr(<<>>), Arr(<<FlowEdge(Str("e1"), Str("a"), Str("b"))>>),
   Arr(<<FlowEdge(Str("e1"), Undefined, Undefined)>>)}

InitFlowStructure ==
  /\ OnlyCall
  /\ called = ""
  /\ errors = <<>>
  /\ \E ns \in {Undefined} \cup {Arr(s) : s \in SeqsUpTo(FlowNodeValues, MaxFlowNodes)},
        es \in FlowEdgesValues :
       diagram = Document(Str("flow"), Metadata(Str("Orders")), Undefined, ns, es, Undefined)

SpecFlowStructure == InitFlowStructure /\ [][CallValidateFlowStructure]_vars

FlowStructureCalled == called = "validateFlowStructure" /\ IsArray(diagram.nodes)

\* The node i of the diagram is as the README asks: an object with a string
\* id no other node has, a non-empty string label and a documented type.
WellFormedNode(i) ==
  LET ns == diagram.nodes.entries IN
  /\ IsObjectNode(ns[i])
  /\ Truthy(Get(ns[i], "id")) /\ TypeofString(Get(ns[i], "id"))
  /\ \A k \in 1..Len(ns) : (k # i /\ IsObjectNode(ns[k])) => Get(ns[k], "id") # Get(ns[i], "id")
  /\ Truthy(Get(ns[i], "label")) /\ TypeofString(Get(ns[i], "label"))
  /\ TypeofString(Get(ns[i], "type")) /\ Get(ns[i], "type").value \in DocumentedNodeTypes

ErrorsOfNode(i) == SelectSeq(errors, LAMBDA e : e.at = <<ToString(i - 1)>> /\ e.what
                                      \in {"node", "id", "type", "label", "position",
                                           "position.x", "position.y"})

\* C19: validateFlowStructure emits no error for a node with a unique
\* string id, a non-empty string label and a type among start, end,
\* process, decision and note, whether or not it has a position.
C19_DocumentedNodeAccepted ==
  FlowStructureCalled =>
    \A i \in 1..Len(diagram.nodes.entries) : WellFormedNode(i) => ErrorsOfNode(i) = <<>>

\* The same, of the nodes that have a position and a type other than note.
C19_AcceptedWithPositionNotNote ==
  FlowStructureCalled =>
    \A i \in 1..Len(diagram.nodes.entries) :
      (/\ WellFormedNode(i)
       /\ Get(diagram.nodes.entries[i], "type") # Str("note")
       /\ Get(diagram.nodes.entries[i], "position") # Undefined)
      => ErrorsOfNode(i) = <<>>

\* The nodes of type start the nodes array holds.
StartNodes(d) ==
  {i \in 1..Len(d.nodes.entries) :
     Get(d.nodes.entries[i], "type") = Str("start")}

ErrorCodes == {e.code : e \in {g \in SeqToSet(errors) : g.level = "error"}}

OutgoingEdges(d, id) == {k \in 1..Len(d.edges.entries) : d.edges.entries[k].source = id}

\* The errors that flag the node as a decision with too few outgoing edges.
DecisionFlags(es, id) == SelectSeq(es, LAMBDA e : e.what = "decision" /\ e.at = <<id>>)

\* Every decision node with fewer than 2 outgoing edges has one error, and
\* no other decision node has one.
DecisionNodesFlagged ==
  \A n \in SeqToSet(FlowNodes(diagram)) :
    n.type = "decision" =>
      Len(DecisionFlags(errors, n.id)) =
        (IF Cardinality(OutgoingEdges(diagram, n.id)) < 2 THEN 1 ELSE 0)

\* C21: validateFlowLayout flags with one error every decision node that
\* has fewer than 2 outgoing edges, in every flow document with nodes and
\* edges, also one without a start node, and no decision node with 2 or more.
C21_DecisionNodesFlagged == FlowCalled => DecisionNodesFlagged

\* The same, of the flows that have a start node.
C21_FlaggedWithStartNode ==
  (FlowCalled /\ StartIds(diagram) # {}) => DecisionNodesFlagged

\* ---------------------------------------------------------------------
\* validators/referenceValidator.ts : validateSequenceReferences, called on
\* its own (specification SpecSequenceReferences)
\* ---------------------------------------------------------------------

\* The entries of a key that holds a list; none when it holds no list.
ListOf(d, key) ==
  IF Truthy(Get(d, key)) /\ IsArray(Get(d, key)) THEN Get(d, key).entries ELSE <<>>

\* v && typeof v === 'string'
IsNamed(v) == Truthy(v) /\ TypeofString(v)

\* participantIds, messageIds: the string ids of the participants, of the
\* messages
IdsOf(d, key) ==
  {Get(ListOf(d, key)[i], "id").value :
     i \in {o \in 1..Len(ListOf(d, key)) : IsNamed(Get(ListOf(d, key)[o], "id"))}}

\* The checks of message i: its from, then its to
MessageReferenceErrors(d, i) ==
  LET msg == ListOf(d, "messages")[i] IN
  IF ~Truthy(msg) \/ ~TypeofObject(msg) THEN <<>>
  ELSE (IF IsNamed(Get(msg, "from")) /\ Get(msg, "from").value \notin IdsOf(d, "participants")
        THEN <<createError("PARTICIPANT_NOT_FOUND", "from", <<ToString(i - 1)>>)>>
        ELSE <<>>)
       \o
       (IF IsNamed(Get(msg, "to")) /\ Get(msg, "to").value \notin IdsOf(d, "participants")
        THEN <<createError("PARTICIPANT_NOT_FOUND", "to", <<ToString(i - 1)>>)>>
        ELSE <<>>)

\* blocks.some(b => b && typeof b === 'object' && b.id === name)
parentExists(d, name) ==
  \E k \in 1..Len(ListOf(d, "blocks")) :
    /\ Truthy(ListOf(d, "blocks")[k]) /\ TypeofObject(ListOf(d, "blocks")[k])
    /\ Get(ListOf(d, "blocks")[k], "id") = name

\* The checks of block i: the messages it lists, then its parent_block
BlockReferenceErrors(d, i) ==
  LET block == ListOf(d, "blocks")[i] IN
  IF ~Truthy(block) \/ ~TypeofObject(block) THEN <<>>
  ELSE Flatten([j \in 1..Len(ListOf(block, "messages")) |->
         IF /\ TypeofString(ListOf(block, "messages")[j])
            /\ ListOf(block, "messages")[j].value \notin IdsOf(d, "messages")
         THEN <<createError("MESSAGE_NOT_FOUND", "block.messages", <<ToString(i - 1)>>)>>
         ELSE <<>>])
       \o
       (IF IsNamed(Get(block, "parent_block")) /\ ~parentExists(d, Get(block, "parent_block"))
        THEN <<createError("MESSAGE_NOT_FOUND", "parent_block", <<ToString(i - 1)>>)>>
        ELSE <<>>)

\* The checks of note i: each entry of attached_to
NoteReferenceErrors(d, i) ==
  LET note == ListOf(d, "notes")[i] IN
  IF ~Truthy(note) \/ ~TypeofObject(note) THEN <<>>
  ELSE Flatten([j \in 1..Len(ListOf(note, "attached_to")) |->
         IF /\ ListOf(note, "attached_to")[j].value \notin IdsOf(d, "participants")
            /\ ListOf(note, "attached_to")[j].value \notin IdsOf(d, "messages")
         THEN <<createError("PARTICIPANT_NOT_FOUND", "attached_to", <<ToString(i - 1)>>)>>
         ELSE <<>>])

validateSequenceReferences(d) ==
  Flatten([i \in 1..Len(ListOf(d, "messages")) |-> MessageReferenceErrors(d, i)])
  \o Flatten([i \in 1..Len(ListOf(d, "blocks")) |-> BlockReferenceErrors(d, i)])
  \o Flatten([i \in 1..Len(ListOf(d, "notes")) |-> NoteReferenceErrors(d, i)])

CallValidateSequenceReferences ==
  /\ called = ""
  /\ called' = "validateSequenceReferences"
  /\ errors' = validateSequenceReferences(diagram)
  /\ UNCHANGED <<diagram, restOfCall>>

Participant(id) == [kind |-> "object", id |-> Str(id)]
SequenceMessage(id, from, to) ==
  [kind |-> "object", id |-> Str(id), from |-> Str(from), to |-> Str(to)]
Block(id, messages, parent_block) ==
  [kind |-> "object", id |-> Str(id), messages |-> messages, parent_block |-> parent_block]
Note(attached_to) == [kind |-> "object", attached_to |-> attached_to]

BlockName(i) == "b" \o ToString(i)

SequenceReferenceDocument(participants, messages, blocks, notes) ==
  [kind |-> "object", diagram_type |-> Str("sequence"), metadata |-> Metadata(Str("Login")),
   participants |-> participants, messages |-> messages, blocks |-> blocks,
   notes |-> notes]

\* One or two participants; no message or one between participants declared
\* or not; at most MaxBlocks blocks b1.., each listing no message, the
\* message or another, with no parent or a parent among the blocks or not;
\* no note or one attached to a participant, the message or neither.
InitSequenceReferences ==
  /\ OnlyCall
  /\ called = ""
  /\ errors = <<>>
  /\ \E ps \in {Arr(<<Participant("p1")>>), Arr(<<Participant("p1"), Participant("p2")>>)},
        ms \in {Arr(<<>>)}
               \cup {Arr(<<SequenceMessage("m1", f, t)>>) :
                       f \in {"p1", "p2", "px"}, t \in {"p1", "px"}},
        n \in 0..MaxBlocks,
        ns \in {Undefined} \cup {Arr(<<Note(Arr(<<Str(a)>>))>>) : a \in {"p1", "m1", "zz"}} :
       \E bs \in [1..n -> {Arr(<<>>), Arr(<<Str("m1")>>), Arr(<<Str("mx")>>)}
                          \X ({Undefined} \cup {Str(BlockName(k)) : k \in 1..(MaxBlocks + 1)})] :
         diagram = SequenceReferenceDocument(
                     ps, ms,
                     Arr([i \in 1..n |-> Block(BlockName(i), bs[i][1], bs[i][2])]),
                     ns)

SpecSequenceReferences == InitSequenceReferences /\ [][CallValidateSequenceReferences]_vars

SequenceReferencesCalled == called = "validateSequenceReferences"

\* The number of errors for `what' at the entry i of its list.
CountAt(what, i) ==
  Len(SelectSeq(errors, LAMBDA e : e.what = what /\ e.at = <<ToString(i - 1)>>))

OneIf(b) == IF b THEN 1 ELSE 0

DeclaredIds(key) == {x.id.value : x \in SeqToSet(diagram[key].entries)}

\* One error for each from and to that is no participant.
MessagesResolved ==
  \A i \in 1..Len(diagram.messages.entries) :
    /\ CountAt("from", i)
         = OneIf(diagram.messages.entries[i].from.value \notin DeclaredIds("participants"))
    /\ CountAt("to", i)
         = OneIf(diagram.messages.entries[i].to.value \notin DeclaredIds("participants"))

\* One error for each entry of a block's messages that is no message.
BlockMessagesResolved ==
  \A i \in 1..Len(diagram.blocks.entries) :
    CountAt("block.messages", i)
      = Cardinality({j \in 1..Len(diagram.blocks.entries[i].messages.entries) :
                       diagram.blocks.entries[i].messages.entries[j].value
                         \notin DeclaredIds("messages")})

\* One error for each parent_block that names no other block.
ParentResolved(i) ==
  LET block == diagram.blocks.entries[i] IN
  block.parent_block # Undefined =>
    CountAt("parent_block", i)
      = OneIf(~\E k \in 1..Len(diagram.blocks.entries) :
                 k # i /\ diagram.blocks.entries[k].id = block.parent_block)

\* One error for each attached_to entry that is no participant and no message.
NotesResolved ==
  diagram.notes # Undefined =>
    \A i \in 1..Len(diagram.notes.entries) :
      CountAt("attached_to", i)
        = Cardinality({j \in 1..Len(diagram.notes.entries[i].attached_to.entries) :
                         diagram.notes.entries[i].attached_to.entries[j].value
                           \notin DeclaredIds("participants") \cup DeclaredIds("messages")})

\* C22: validateSequenceReferences emits one error for each from or to that
\* is no participant, for each entry of a block's messages that is no
\* message, for each block whose parent_block names no block other than the
\* block itself, and for each attached_to entry that is neither; and no
\* other error.
C22_SequenceReferences ==
  SequenceReferencesCalled =>
    /\ MessagesResolved
    /\ BlockMessagesResolved
    /\ \A i \in 1..Len(diagram.blocks.entries) : ParentResolved(i)
    /\ NotesResolved

\* The same, of the blocks that do not name themselves as their parent.
C22_ResolvedUnlessOwnParent ==
  SequenceReferencesCalled =>
    /\ MessagesResolved
    /\ BlockMessagesResolved
    /\ \A i \in 1..Len(diagram.blocks.entries) :
         diagram.blocks.entries[i].parent_block # diagram.blocks.entries[i].id
           => ParentResolved(i)
    /\ NotesResolved
    /\ Len(errors) = Len(SelectSeq(errors, LAMBDA e :
                           e.what \in {"from", "to", "block.messages", "parent_block",
                                       "attached_to"}))

\* ---------------------------------------------------------------------
\* validateERDBestPractices called on its own (specification
\* SpecERDBestPractices)
\* ---------------------------------------------------------------------

CallValidateERDBestPractices ==
  /\ called = ""
  /\ called' = "validateERDBestPractices"
  /\ errors' = validateERDBestPractices(diagram)
  /\ UNCHANGED <<diagram, restOfCall>>

\* indexes of a model: the key missing, no index, one index on the key or
\* on the reference, both indexes
DeclaredIndexes ==
  {Undefined, Arr(<<>>),
   Arr(<<Index(Str("by_id"), Arr(<<IdField>>))>>),
   Arr(<<Index(Str("by_ref"), Arr(<<RefField>>))>>),
   Arr(<<Index(Str("by_id"), Arr(<<IdField>>)), Index(Str("by_ref"), Arr(<<RefField>>))>>)}

\* At most MaxModels models, each with a key, primary or not, and a
\* reference with a foreign key or without.
InitERDBestPractices ==
  /\ OnlyCall
  /\ called = ""
  /\ errors = <<>>
  /\ \E n \in 0..MaxModels :
       \E ms \in [1..n -> BOOLEAN \X {Undefined, ForeignKey(ModelName(1), IdField)}
                          \X DeclaredIndexes] :
         diagram = Document(Str("erd"), Metadata(Str("Shop")),
                            Obj([i \in 1..n |->
                                   Model(ModelName(i),
                                         Obj(<<Field(IdField, ms[i][1], Undefined),
                                               Field(RefField, FALSE, ms[i][2])>>),
                                         ms[i][3])]),
                            Undefined, Undefined, Undefined)

SpecERDBestPractices == InitERDBestPractices /\ [][CallValidateERDBestPractices]_vars

BestPracticesCalled == called = "validateERDBestPractices"

\* The columns the declared indexes of the model cover; none without indexes.
CoveredColumns(model) ==
  IF model.indexes = Undefined THEN {}
  ELSE {c \in {IdField, RefField} :
          \E x \in SeqToSet(model.indexes.entries) : c \in SeqToSet(x.columns.entries)}

\* One FK_WITHOUT_INDEX warning for each foreign-key field of the model no
\* index covers, none for another field.
ForeignKeysWarned(model) ==
  \A f \in SeqToSet(Fields(model)) :
    Len(SelectSeq(errors, LAMBDA w : w.code = "FK_WITHOUT_INDEX"
                                      /\ w.at = <<model.name, f.name>>))
      = OneIf(Truthy(f.foreign_key) /\ f.name \notin CoveredColumns(model))

\* C23: validateERDBestPractices emits one FK_WITHOUT_INDEX warning for
\* every foreign-key field that no declared index of its model covers,
\* whether the model declares several indexes, one or none, and none for a
\* foreign-key field that an index covers.
C23_ForeignKeyWithoutIndex ==
  BestPracticesCalled =>
    \A m \in SeqToSet(Models(diagram)) : ForeignKeysWarned(m)

\* The same, of the models that have an indexes list.
C23_WarnedWithIndexesList ==
  BestPracticesCalled =>
    \A m \in SeqToSet(Models(diagram)) : m.indexes # Undefined => ForeignKeysWarned(m)

\* ---------------------------------------------------------------------
\* validators/bestPracticesValidator.ts : validateFlowBestPractices, called
\* on its own (specification SpecFlowBestPractices)
\* ---------------------------------------------------------------------

\* s.trim(), of the strings the documents hold
trim(s) == IF s = " " THEN "" ELSE s

\* The nodes of the diagram that are objects of the type
NodesOfType(d, type) ==
  {i \in 1..Len(d.nodes.entries) :
     IsObjectNode(d.nodes.entries[i]) /\ Get(d.nodes.entries[i], "type") = Str(type)}

\* outgoingEdges of a node, as positions in diagram.edges
outgoingEdges(d, node) ==
  {k \in 1..Len(d.edges.entries) :
     IsObjectNode(d.edges.entries[k]) /\ Get(d.edges.entries[k], "source") = Get(node, "id")}

\* edgesWithoutConditions, of the outgoing edges
edgesWithoutConditions(d, node) ==
  {k \in outgoingEdges(d, node) :
     LET condition == Get(d.edges.entries[k], "condition") IN
     ~Truthy(condition) \/ ~TypeofString(condition) \/ trim(condition.value) = ""}

\* The complexity threshold of a flow diagram
ComplexNodeCount == 20

validateFlowBestPractices(d) ==
  IF ~Truthy(d.nodes) \/ ~IsArray(d.nodes) THEN <<>>
  ELSE (IF Cardinality(NodesOfType(d, "fork")) # Cardinality(NodesOfType(d, "join"))
        THEN <<createWarning("FORK_JOIN_MISMATCH", "nodes", <<>>)>>
        ELSE <<>>)
       \o
       (IF Len(d.nodes.entries) > ComplexNodeCount
        THEN <<createWarning("COMPLEX_DIAGRAM", "nodes", <<>>)>>
        ELSE <<>>)
       \o
       (IF ~Truthy(d.edges) \/ ~IsArray(d.edges) THEN <<>>
        ELSE Flatten([i \in 1..Len(d.nodes.entries) |->
               IF i \notin NodesOfType(d, "decision") THEN <<>>
               ELSE IF /\ Cardinality(outgoingEdges(d, d.nodes.entries[i])) >= 2
                       /\ Cardinality(edgesWithoutConditions(d, d.nodes.entries[i])) > 0
               THEN <<createWarning("MISSING_CONDITION", "edges",
                                    <<d.nodes.entries[i].id.value>>)>>
               ELSE <<>>]))

CallValidateFlowBestPractices ==
  /\ called = ""
  /\ called' = "validateFlowBestPractices"
  /\ errors' = validateFlowBestPractices(diagram)
  /\ UNCHANGED <<diagram, restOfCall>>

ConditionEdge(source, condition, label) ==
  [kind |-> "object", source |-> Str(source), target |-> Str("end"),
   condition |-> condition, label |-> label]

\* The decision node d, a second node of any of four types and an end node;
\* at most MaxOutgoing edges that leave one of the two, each with a
\* condition (none, empty, blank or not) and with or without a label.
InitFlowBestPractices ==
  /\ OnlyCall
  /\ called = ""
  /\ errors = <<>>
  /\ \E t \in {"process", "decision", "fork", "join"}, n \in 0..MaxOutgoing :
       \E es \in [1..n -> {"d", "a"}
                          \X {Undefined, Str(""), Str(" "), Str("yes")}
                          \X {Undefined, Str("Yes")}] :
         diagram = Document(Str("flow"), Metadata(Str("Orders")), Undefined,
                            Arr(<<FlowNode(Str("d"), Str("decision"), Str("Go"), Undefined),
                                  FlowNode(Str("a"), Str(t), Str("Go"), Undefined),
                                  FlowNode(Str("end"), Str("end"), Str("Go"), Undefined)>>),
                            Arr([k \in 1..n |-> ConditionEdge(es[k][1], es[k][2], es[k][3])]),
                            Undefined)

SpecFlowBestPractices == InitFlowBestPractices /\ [][CallValidateFlowBestPractices]_vars

FlowBestPracticesCalled == called = "validateFlowBestPractices"

\* The edges that leave the node.
Leaving(id) == {e \in SeqToSet(diagram.edges.entries) : e.source = id}

\* The edge carries a non-empty condition or a non-empty label.
HasCondition(e) ==
  \/ (e.condition.kind = "string" /\ e.condition.value \notin {"", " "})
  \/ (e.label.kind = "string" /\ e.label.value \notin {"", " "})

\* The edge carries a non-empty condition.
HasConditionKey(e) == e.condition.kind = "string" /\ e.condition.value \notin {"", " "}

MissingConditionWarnings(id) ==
  Len(SelectSeq(errors, LAMBDA w : w.code = "MISSING_CONDITION" /\ w.at = <<id.value>>))

\* The number of edges of the diagram that leave the node.
LeavingCount(id) ==
  Cardinality({k \in 1..Len(diagram.edges.entries) : diagram.edges.entries[k].source = id})

\* C24: validateFlowBestPractices emits one MISSING_CONDITION warning for a
\* decision node exactly when the node has at least 2 outgoing edges and one
\* of them has no non-empty condition or label, a non-empty label counting
\* as one; it emits none for a decision node with fewer than 2.
C24_MissingCondition ==
  FlowBestPracticesCalled =>
    \A n \in SeqToSet(diagram.nodes.entries) :
      n.type = Str("decision") =>
        MissingConditionWarnings(n.id)
          = OneIf(LeavingCount(n.id) >= 2 /\ \E e \in Leaving(n.id) : ~HasCondition(e))

\* The same, with the condition key alone counting as a condition.
C24_MissingConditionKey ==
  FlowBestPracticesCalled =>
    \A n \in SeqToSet(diagram.nodes.entries) :
      n.type = Str("decision") =>
        MissingConditionWarnings(n.id)
          = OneIf(LeavingCount(n.id) >= 2 /\ \E e \in Leaving(n.id) : ~HasConditionKey(e))

\* ---------------------------------------------------------------------
\* Foreign keys of the parsed models (specification SpecERDParse)
\* ---------------------------------------------------------------------

\* The fields of the models a parser call returned.
ParsedFields(call) ==
  IF call.model.kind # "schema" THEN {}
  ELSE UNION {SeqToSet(call.model.models[i].fields) : i \in 1..Len(call.model.models)}

\* C25: in every model the ERD parsers produce, a field with isForeignKey
\* true has a non-empty relationToModel.
C25_ForeignKeyHasModel ==
  \A call \in SeqToSet(parseLog) :
    \A f \in ParsedFields(call) : f.isForeignKey = Bool(TRUE) => Truthy(f.relationToModel)

\* The same, of the models parsePrismaSchema produces.
C25_PrismaForeignKeyHasModel ==
  \A call \in SeqToSet(parseLog) :
    call.parser = "parsePrismaSchema" =>
      \A f \in ParsedFields(call) : f.isForeignKey = Bool(TRUE) => Truthy(f.relationToModel)

\* A Prisma field with @relation(fields:[..]) has been parsed.
PrismaForeignKeyParsed ==
  \E call \in SeqToSet(parseLog) :
    call.parser = "parsePrismaSchema"
    /\ \E f \in ParsedFields(call) : f.isForeignKey = Bool(TRUE)

\* ---------------------------------------------------------------------
\* The exception path of validate (specification Spec)
\* ---------------------------------------------------------------------

\* validate has returned through its catch block.
ExceptionPath == pc = "done" /\ result = CatchResult

\* C26: the exception path of validate is reached only when the YAML text
\* fails to parse; for a text that parses to an object no phase throws.
C26_ExceptionOnlyOnParseFailure == ExceptionPath => yamlParseThrows(yamlContent)

\* The exception path is reached only from the parse, the kind detection
\* or the structure phase, and from the last two only for a declared kind
\* other than erd or for a foreign_key that is null.
C26_ExceptionSources ==
  ExceptionPath =>
    \/ yamlParseThrows(yamlContent)
    \/ ran = <<>> /\ detectDiagramTypeThrows(parsed)
    \/ ran = <<"structure">> /\ validateERDStructureThrows(parsed)

\* The exception path has been reached after the structure phase began.
ExceptionInStructure == ExceptionPath /\ ran = <<"structure">>

\* ---------------------------------------------------------------------
\* validators/referenceValidator.ts : validateFlowReferences, and the flow
\* document given to the validators and then to parseFlowYaml
\* (specification SpecFlowAcceptance)
\* ---------------------------------------------------------------------

\* The checks of edge i: its source, then its target
FlowEdgeReferenceErrors(d, i) ==
  LET edge == ListOf(d, "edges")[i] IN
  IF ~Truthy(edge) \/ ~TypeofObject(edge) THEN <<>>
  ELSE (IF IsNamed(Get(edge, "source")) /\ Get(edge, "source").value \notin IdsOf(d, "nodes")
        THEN <<createError("NODE_NOT_FOUND", "source", <<ToString(i - 1)>>)>>
        ELSE <<>>)
       \o
       (IF IsNamed(Get(edge, "target")) /\ Get(edge, "target").value \notin IdsOf(d, "nodes")
        THEN <<createError("NODE_NOT_FOUND", "target", <<ToString(i - 1)>>)>>
        ELSE <<>>)

\* The checks of group i: one error for each of its nodes that is a string
\* and no declared node
FlowGroupReferenceErrors(d, i) ==
  LET group == ListOf(d, "groups")[i] IN
  IF ~Truthy(group) \/ ~TypeofObject(group) THEN <<>>
  ELSE Flatten([j \in 1..Len(ListOf(group, "nodes")) |->
         IF /\ TypeofString(ListOf(group, "nodes")[j])
            /\ ListOf(group, "nodes")[j].value \notin IdsOf(d, "nodes")
         THEN <<createError("NODE_NOT_FOUND", "nodes", <<ToString(i - 1)>>)>>
         ELSE <<>>])

validateFlowReferences(d) ==
  Flatten([i \in 1..Len(ListOf(d, "edges")) |-> FlowEdgeReferenceErrors(d, i)])
  \o Flatten([i \in 1..Len(ListOf(d, "groups")) |-> FlowGroupReferenceErrors(d, i)])

\* The two validators of a flow document, structure and then references
ValidateFlowDocument ==
  /\ called = ""
  /\ called' = "validateFlow"
  /\ errors' = validateFlowStructure(diagram) \o validateFlowReferences(diagram)
  /\ UNCHANGED <<diagram, restOfCall>>

\* parseFlowYaml of the document the validators were given
ParseFlowDocument ==
  /\ called = "validateFlow"
  /\ parseLog = <<>>
  /\ parseLog' = <<LogEntry("parseFlowYaml", diagram, parseFlowYaml(diagram))>>
  /\ UNCHANGED <<callVars, validateVars, webviewVars, concurrentVars, walkVars, saveVars>>

\* An edge that names its ends as the validator reads them, and as the
\* parser reads them too
FlowEdgeFromTo(id, source, target) ==
  [kind |-> "object", id |-> id, source |-> source, target |-> target,
   from |-> source, to |-> target]

\* A node: a scalar, or a start or process node with one of two ids, with a
\* position or none
AcceptanceNodeValues ==
  {Str("node")}
  \cup {FlowNode(Str(id), Str(t), Str("Go"), p) :
          id \in {"a", "b"}, t \in {"start", "process"},
          p \in {Undefined, Position(Num(0), Num(0))}}

\* edges: the key missing, no edge, an edge between declared nodes with the
\* keys of the validator, with the keys of both, a loop, an edge to no node
AcceptanceEdgesValues ==
  {Undefined, Arr(<<>>),
   Arr(<<FlowEdge(Str("e1"), Str("a"), Str("b"))>>),
   Arr(<<FlowEdgeFromTo(Str("e1"), Str("a"), Str("b"))>>),
   Arr(<<FlowEdge(Str("e1"), Str("a"), Str("a"))>>),
   Arr(<<FlowEdge(Str("e1"), Str("a"), Str("z"))>>)}

InitFlowAcceptance ==
  /\ NoValidate /\ NoParse /\ NoWebview /\ NoConcurrent /\ NoWalk /\ NoSave
  /\ called = ""
  /\ errors = <<>>
  /\ \E ns \in {Undefined} \cup {Arr(s) : s \in SeqsUpTo(AcceptanceNodeValues, MaxFlowNodes)},
        es \in AcceptanceEdgesValues :
       diagram = Document(Str("flow"), Metadata(Str("Orders")), Undefined, ns, es, Undefined)

NextFlowAcceptance ==
  \/ ValidateFlowDocument
  \/ ParseFlowDocument

SpecFlowAcceptance == InitFlowAcceptance /\ [][NextFlowAcceptance]_vars

\* The document passed both validators and has been parsed.
AcceptedAndParsed == called = "validateFlow" /\ errors = <<>> /\ parseLog # <<>>

\* The source and the target of every declared edge
DeclaredEnds ==
  {<<StringOf(Get(e, "source")), StringOf(Get(e, "target"))>> :
     e \in SeqToSet(ListOf(diagram, "edges"))}

\* The from and the to of every edge of a parsed model
ParsedEnds(model) == {<<e.from, e.to>> : e \in SeqToSet(model.edges)}

\* C27: a flow document that passes validateFlowStructure and
\* validateFlowReferences is parsed by parseFlowYaml into a model whose node
\* ids are the declared node ids and whose edges join the declared source
\* and target ids.
C27_ParserAgreesWithValidator ==
  AcceptedAndParsed =>
    /\ parseLog[1].model.kind = "flow"
    /\ SeqToSet(parseLog[1].model.nodes) = IdsOf(diagram, "nodes")
    /\ ParsedEnds(parseLog[1].model) = DeclaredEnds

\* Such a document is parsed into a model with as many nodes and as many
\* edges as it declares.
C27_SameCounts ==
  AcceptedAndParsed =>
    /\ parseLog[1].model.kind = "flow"
    /\ Len(parseLog[1].model.nodes) = Len(ListOf(diagram, "nodes"))
    /\ Len(parseLog[1].model.edges) = Len(ListOf(diagram, "edges"))

\* An accepted document with an edge has been parsed.
AcceptedWithEdge == AcceptedAndParsed /\ Len(ListOf(diagram, "edges")) > 0

\* ---------------------------------------------------------------------
\* validateERDLayout.hasCycle and validateFlowLayout.traverse, a call and a
\* return at a time (specification SpecWalk).  `diagram' is the document,
\* `called' the validator at work, `errors' what it has pushed.
\* ---------------------------------------------------------------------

\* dependencies.get(node) || [], adjacency.get(nodeId) || []
Neighbors(node) ==
  LET graph == IF called = "validateERDLayout" THEN dependencies(diagram)
               ELSE adjacency(diagram)
  IN IF node \in DOMAIN graph THEN graph[node] ELSE <<>>

\* The call that is inside its loop, and the stack without it
TopFrame == stack[Len(stack)]
Popped == SubSeq(stack, 1, Len(stack) - 1)

\* for (const modelName of modelNames) { if (hasCycle(modelName)) ...: the call
HasCycleOfModel ==
  /\ called = "validateERDLayout"
  /\ stack = <<>> /\ callee = NoNode /\ returned = "none"
  /\ pending # <<>>
  /\ callee' = Head(pending)
  /\ pending' = Tail(pending)
  /\ UNCHANGED <<stack, returned, visited, recursionStack, reachable, entered>>
  /\ UNCHANGED <<callVars, validateVars, parseVars, webviewVars, concurrentVars, saveVars>>

\* HasCycleEnter without the guard on visited
HasCycleEnterRevisiting ==
  /\ called = "validateERDLayout"
  /\ callee # NoNode
  /\ callee' = NoNode
  /\ IF callee \in recursionStack
     THEN returned' = "true" /\ UNCHANGED <<stack, visited, recursionStack, entered>>
     ELSE /\ visited' = visited \cup {callee}
          /\ recursionStack' = recursionStack \cup {callee}
          /\ stack' = Append(stack, [node |-> callee, k |-> 0])
          /\ entered' = Append(entered, callee)
          /\ UNCHANGED returned
  /\ UNCHANGED <<pending, reachable>>
  /\ UNCHANGED <<callVars, validateVars, parseVars, webviewVars, concurrentVars, saveVars>>

\* hasCycle(node), up to its loop: the two guards, then visited.add(node)
\* and recursionStack.add(node)
HasCycleEnter ==
  /\ called = "validateERDLayout"
  /\ callee # NoNode
  /\ callee' = NoNode
  /\ IF callee \in recursionStack
     THEN returned' = "true" /\ UNCHANGED <<stack, visited, recursionStack, entered>>
     ELSE IF callee \in visited
     THEN returned' = "false" /\ UNCHANGED <<stack, visited, recursionStack, entered>>
     ELSE /\ visited' = visited \cup {callee}
          /\ recursionStack' = recursionStack \cup {callee}
          /\ stack' = Append(stack, [node |-> callee, k |-> 0])
          /\ entered' = Append(entered, callee)
          /\ UNCHANGED returned
  /\ UNCHANGED <<pending, reachable>>
  /\ UNCHANGED <<callVars, validateVars, parseVars, webviewVars, concurrentVars, saveVars>>

\* for (const dep of deps) { if (hasCycle(dep)) ...: the call of the next
\* dependency, or after the last one recursionStack.delete(node); return false
HasCycleOfDep ==
  /\ called = "validateERDLayout"
  /\ stack # <<>> /\ callee = NoNode /\ returned = "none"
  /\ IF TopFrame.k < Len(Neighbors(TopFrame.node))
     THEN /\ callee' = Neighbors(TopFrame.node)[TopFrame.k + 1]
          /\ stack' = [stack EXCEPT ![Len(stack)].k = @ + 1]
          /\ UNCHANGED <<returned, recursionStack>>
     ELSE /\ recursionStack' = recursionStack \ {TopFrame.node}
          /\ returned' = "false"
          /\ stack' = Popped
          /\ UNCHANGED callee
  /\ UNCHANGED <<pending, visited, reachable, entered>>
  /\ UNCHANGED <<callVars, validateVars, parseVars, webviewVars, concurrentVars, saveVars>>

\* if (hasCycle(dep)) { return true; } inside the loop of a call
HasCycleOfDepReturned ==
  /\ called = "validateERDLayout"
  /\ stack # <<>> /\ callee = NoNode /\ returned # "none"
  /\ IF returned = "true"
     THEN stack' = Popped /\ UNCHANGED returned
     ELSE returned' = "none" /\ UNCHANGED stack
  /\ UNCHANGED <<pending, callee, visited, recursionStack, reachable, entered>>
  /\ UNCHANGED <<callVars, validateVars, parseVars, webviewVars, concurrentVars, saveVars>>

\* if (hasCycle(modelName)) { errors.push(...); break; } in the loop over
\* modelNames
HasCycleOfModelReturned ==
  /\ called = "validateERDLayout"
  /\ stack = <<>> /\ callee = NoNode /\ returned # "none"
  /\ returned' = "none"
  /\ IF returned = "true"
     THEN /\ errors' = Append(errors,
                            createError("CIRCULAR_DEPENDENCY", "models",
                                        <<ModelNames(diagram)[Len(ModelNames(diagram))
                                                              - Len(pending)]>>))
          /\ pending' = <<>>
     ELSE UNCHANGED <<errors, pending>>
  /\ UNCHANGED <<diagram, called>>
  /\ UNCHANGED <<stack, callee, visited, recursionStack, reachable, entered>>
  /\ UNCHANGED <<validateVars, parseVars, webviewVars, concurrentVars, saveVars>>

\* for (const startNode of startNodes) { traverse(startNode.id); }: the call
TraverseFromStart ==
  /\ called = "validateFlowLayout"
  /\ stack = <<>> /\ callee = NoNode
  /\ pending # <<>>
  /\ callee' = Head(pending)
  /\ pending' = Tail(pending)
  /\ UNCHANGED <<stack, returned, visited, recursionStack, reachable, entered>>
  /\ UNCHANGED <<callVars, validateVars, parseVars, webviewVars, concurrentVars, saveVars>>

\* traverse(nodeId), up to its loop: the guard, then reachable.add(nodeId)
TraverseEnter ==
  /\ called = "validateFlowLayout"
  /\ callee # NoNode
  /\ callee' = NoNode
  /\ IF callee \in reachable
     THEN UNCHANGED <<stack, reachable, entered>>
     ELSE /\ reachable' = reachable \cup {callee}
          /\ stack' = Append(stack, [node |-> callee, k |-> 0])
          /\ entered' = Append(entered, callee)
  /\ UNCHANGED <<pending, returned, visited, recursionStack>>
  /\ UNCHANGED <<callVars, validateVars, parseVars, webviewVars, concurrentVars, saveVars>>

\* for (const neighbor of neighbors) { traverse(neighbor); }: the call of the
\* next neighbour, or the return after the last one
TraverseNeighbor ==
  /\ called = "validateFlowLayout"
  /\ stack # <<>> /\ callee = NoNode
  /\ IF TopFrame.k < Len(Neighbors(TopFrame.node))
     THEN /\ callee' = Neighbors(TopFrame.node)[TopFrame.k + 1]
          /\ stack' = [stack EXCEPT ![Len(stack)].k = @ + 1]
     ELSE /\ stack' = Popped
          /\ UNCHANGED callee
  /\ UNCHANGED <<pending, returned, visited, recursionStack, reachable, entered>>
  /\ UNCHANGED <<callVars, validateVars, parseVars, webviewVars, concurrentVars, saveVars>>

\* The ids of the start nodes, in the order of the nodes
RECURSIVE StartNodeIds(_)
StartNodeIds(ns) ==
  IF ns = <<>> THEN <<>>
  ELSE (IF IsStart(Head(ns)) THEN <<Head(ns).id>> ELSE <<>>) \o StartNodeIds(Tail(ns))

\* validateERDLayout on a document of MaxWalkNodes models with at most
\* MaxWalkEdges foreign keys in all, or validateFlowLayout on a document of
\* at most MaxWalkNodes nodes and at most MaxWalkEdges edges, each at the
\* start of its loop.  A foreign key may name no model, and an edge a node
\* that is not declared.
InitWalk ==
  /\ NoValidate /\ NoParse /\ NoWebview /\ NoConcurrent /\ NoSave
  /\ errors = <<>>
  /\ stack = <<>> /\ callee = NoNode /\ returned = "none"
  /\ visited = {} /\ recursionStack = {} /\ reachable = {} /\ entered = <<>>
  /\ \/ /\ called = "validateERDLayout"
        /\ \E ls \in [1..MaxWalkNodes -> 0..MaxWalkEdges] :
             /\ SumTo(ls, MaxWalkNodes) <= MaxWalkEdges
             /\ \E tables \in [1..SumTo(ls, MaxWalkNodes) ->
                                 {ModelName(i) : i \in 1..MaxWalkNodes} \cup {Ghost}] :
                  diagram = ErdGraphDocument(MaxWalkNodes, ls, tables)
        /\ pending = ModelNames(diagram)
     \/ /\ called = "validateFlowLayout"
        /\ \E n \in 0..MaxWalkNodes, e \in 0..MaxWalkEdges :
             \E ts \in [1..n -> {"start", "process"}],
                es \in [1..e -> {NodeName(i) : i \in 1..MaxWalkNodes}
                                \X {NodeName(i) : i \in 1..MaxWalkNodes}] :
               diagram = FlowDocument(ts, es)
        /\ pending = StartNodeIds(diagram.nodes.entries)

NextWalk ==
  \/ HasCycleOfModel
  \/ HasCycleEnter
  \/ HasCycleOfDep
  \/ HasCycleOfDepReturned
  \/ HasCycleOfModelReturned
  \/ TraverseFromStart
  \/ TraverseEnter
  \/ TraverseNeighbor

\* The code runs on one thread and no step of it waits: a step that can be
\* taken is taken.
SpecWalk == InitWalk /\ [][NextWalk]_vars /\ WF_vars(NextWalk)

\* Every node id of the graph: the declared ones and the ones edges name
WalkNodeIds ==
  (IF called = "validateERDLayout" THEN SeqToSet(ModelNames(diagram))
   ELSE {diagram.nodes.entries[i].id : i \in 1..Len(diagram.nodes.entries)}
        \cup {diagram.edges.entries[i].target : i \in 1..Len(diagram.edges.entries)})

\* No node was entered twice.
EnteredOnce == \A i, j \in 1..Len(entered) : entered[i] = entered[j] => i = j

\* The calls inside their loops are no more than the node ids.
DepthBounded == Len(stack) <= Cardinality(WalkNodeIds)

\* The loop over modelNames, over startNodes has ended.
WalkDone == pending = <<>> /\ stack = <<>> /\ callee = NoNode /\ returned = "none"

\* At the end the walk has pushed the errors validateERDLayout returns, and
\* marked the nodes the traversal of validateFlowLayout marks.
WalkAgrees ==
  WalkDone =>
    IF called = "validateERDLayout" THEN errors = validateERDLayout(diagram)
    ELSE reachable = traverseAll(adjacency(diagram),
                                 SelectSeq(diagram.nodes.entries, IsStart), 1, {})

SaveButtonRendered == isPrisma /\ schemaType = "prisma"
SaveButtonEnabled == SaveButtonRendered /\ ~isSaving

\* && currentSchemaRef.current
SchemaLoaded == currentSchemaRef.kind = "schema"

\* handleSaveAsYaml, run by a click on the button
HandleSaveAsYaml ==
  /\ SaveButtonEnabled
  /\ saves < MaxSaves
  /\ saves' = saves + 1
  /\ isSaving' = TRUE
  /\ toExtension' = Append(toExtension, "requestSaveYaml")
  /\ UNCHANGED <<schemaType, isPrisma, toWebview, dialogs, writes>>
  /\ UNCHANGED <<validateVars, callVars, parseVars, webviewVars, concurrentVars, walkVars>>

\* The chart-vscode-ext.saveAsYaml command, up to await showSaveDialog
SaveYamlCommand ==
  /\ saves < MaxSaves
  /\ saves' = saves + 1
  /\ dialogs' = Append(dialogs, "command")
  /\ UNCHANGED <<schemaType, isPrisma, isSaving, toExtension, toWebview, writes>>
  /\ UNCHANGED <<validateVars, callVars, parseVars, webviewVars, concurrentVars, walkVars>>

\* onDidReceiveMessage: requestSaveYaml up to await showSaveDialog, saveYaml
\* up to await writeFile
OnDidReceiveMessage ==
  /\ toExtension # <<>>
  /\ toExtension' = Tail(toExtension)
  /\ IF Head(toExtension) = "requestSaveYaml"
     THEN dialogs' = Append(dialogs, "panel") /\ UNCHANGED writes
     ELSE writes' = writes + 1 /\ UNCHANGED dialogs
  /\ UNCHANGED <<schemaType, isPrisma, isSaving, toWebview, saves>>
  /\ UNCHANGED <<validateVars, callVars, parseVars, webviewVars, concurrentVars, walkVars>>

\* The sequence without its i-th element
Without(s, i) == SubSeq(s, 1, i - 1) \o SubSeq(s, i + 1, Len(s))

\* showSaveDialog has returned, a file or nothing: the panel posts saveAsYaml
\* or saveCancelled, the command posts saveAsYaml or nothing.
SaveDialogClosed ==
  /\ \E i \in 1..Len(dialogs), saveUri \in BOOLEAN :
       /\ dialogs' = Without(dialogs, i)
       /\ toWebview' = IF saveUri THEN Append(toWebview, "saveAsYaml")
                       ELSE IF dialogs[i] = "panel" THEN Append(toWebview, "saveCancelled")
                       ELSE toWebview
  /\ UNCHANGED <<schemaType, isPrisma, isSaving, toExtension, writes, saves>>
  /\ UNCHANGED <<validateVars, callVars, parseVars, webviewVars, concurrentVars, walkVars>>

\* saveYaml after await writeFile: saveComplete, or saveError from the catch
SaveYaml ==
  /\ writes > 0
  /\ writes' = writes - 1
  /\ \E written \in BOOLEAN :
       toWebview' = Append(toWebview, IF written THEN "saveComplete" ELSE "saveError")
  /\ UNCHANGED <<schemaType, isPrisma, isSaving, toExtension, dialogs, saves>>
  /\ UNCHANGED <<validateVars, callVars, parseVars, webviewVars, concurrentVars, walkVars>>

\* HandleMessage that leaves isSaving alone on saveCancelled
HandleMessageCancelIgnored ==
  /\ toWebview # <<>>
  /\ toWebview' = Tail(toWebview)
  /\ IF Head(toWebview) = "saveAsYaml"
     THEN IF SchemaLoaded
          THEN isSaving' = TRUE /\ toExtension' = Append(toExtension, "saveYaml")
          ELSE UNCHANGED <<isSaving, toExtension>>
     ELSE IF Head(toWebview) = "saveCancelled"
     THEN UNCHANGED <<isSaving, toExtension>>
     ELSE isSaving' = FALSE /\ UNCHANGED toExtension
  /\ UNCHANGED <<schemaType, isPrisma, dialogs, writes, saves>>
  /\ UNCHANGED <<validateVars, callVars, parseVars, webviewVars, concurrentVars, walkVars>>

\* handleMessage: saveAsYaml with a schema loaded sets isSaving and posts
\* saveYaml (prismaToYaml builds a text from any parsed schema), saveAsYaml
\* without one does nothing; saveCancelled, saveComplete and saveError
\* reset isSaving.
HandleMessage ==
  /\ toWebview # <<>>
  /\ toWebview' = Tail(toWebview)
  /\ IF Head(toWebview) = "saveAsYaml"
     THEN IF SchemaLoaded
          THEN isSaving' = TRUE /\ toExtension' = Append(toExtension, "saveYaml")
          ELSE UNCHANGED <<isSaving, toExtension>>
     ELSE isSaving' = FALSE /\ UNCHANGED toExtension
  /\ UNCHANGED <<schemaType, isPrisma, dialogs, writes, saves>>
  /\ UNCHANGED <<validateVars, callVars, parseVars, webviewVars, concurrentVars, walkVars>>

\* What the initial-data effect leaves: a Prisma schema, a YAML ERD, a flow,
\* a sequence, or nothing loaded.  currentSchemaRef is set for the first two
\* only, schemaType is 'prisma' for the first only.
LoadedKinds == {"prisma", "erd", "flow", "sequence", "none"}

InitSave ==
  /\ NoValidate /\ NoCall /\ NoParse /\ NoConcurrent /\ NoWalk
  /\ initialData = Undefined
  /\ effect = "none"
  /\ nodes = initialNodes
  /\ edges = initialEdges
  /\ isSaving = FALSE
  /\ toExtension = <<>> /\ toWebview = <<>> /\ dialogs = <<>>
  /\ writes = 0 /\ saves = 0
  /\ \E loaded \in LoadedKinds :
       /\ currentSchemaRef =
            IF loaded \in {"prisma", "erd"}
            THEN parsePrismaSchema(PrismaText(<<[type |-> "String", relation |-> Undefined,
                                                 fields |-> FALSE]>>))
            ELSE NullValue
       /\ schemaType = (IF loaded = "prisma" THEN "prisma"
                        ELSE IF loaded = "none" THEN "null" ELSE "yaml")
       /\ isPrisma = (loaded \in {"prisma", "erd"})
       /\ diagramKind = (IF loaded \in {"prisma", "none"} THEN NullValue ELSE Str(loaded))

NextSave ==
  \/ HandleSaveAsYaml
  \/ SaveYamlCommand
  \/ OnDidReceiveMessage
  \/ SaveDialogClosed
  \/ SaveYaml
  \/ HandleMessage

\* A posted message is delivered, an awaited writeFile settles, and the user
\* closes a save dialog that is open; nobody has to click or run a command.
SpecSave ==
  /\ InitSave
  /\ [][NextSave]_vars
  /\ WF_vars(OnDidReceiveMessage)
  /\ WF_vars(SaveDialogClosed)
  /\ WF_vars(SaveYaml)
  /\ WF_vars(HandleMessage)

\* The step is a reset of isSaving by saveCancelled, saveComplete or saveError.
ResetByReply ==
  /\ toWebview # <<>>
  /\ Head(toWebview) \in {"saveCancelled", "saveComplete", "saveError"}
  /\ ~isSaving'

SaveAsYamlDropped == toWebview # <<>> /\ Head(toWebview) = "saveAsYaml" /\ ~SchemaLoaded

\* The button is on the screen only with a schema loaded, so that the
\* saveAsYaml that answers a click is never dropped.
ButtonOnlyWithSchema == SaveButtonRendered => SchemaLoaded

=============================================================================
